---------------------------- MODULE Spec2Model ----------------------------
(***************************************************************************)
(* Mesh synthesis of a plant (FlorisCreyf/bluetree): pg::Mesh::generate    *)
(* walks the stem tree of a pg::Plant, extrudes one ring of vertices per   *)
(* path sample, fuses branch collars, caps stems, attaches leaves, records *)
(* one Segment per stem and leaf in the buffer of its material, and then   *)
(* rewrites indices and segments for the merged buffer.                    *)
(*                                                                         *)
(* Geometry is kept symbolically: a vertex position is the tuple naming    *)
(* the stem, the path sample, the place on the ring and the rotation that  *)
(* produced it.  Lengths along a path are integers (samples are one unit   *)
(* apart); skinning weights are exact fractions <<x, y, den>>.             *)
(***************************************************************************)
EXTENDS Integers, Sequences, FiniteSets, TLC

(***************************************************************************)
(* Bounds of the model.                                                    *)
(***************************************************************************)
MaxStems == 3
MaxMaterial == 2
MaxDivisions == 5
MaxPathSize == 5
MaxJoints == 2
MaxPasses == 2
MaxExtractions == 3

(***************************************************************************)
(* Program constants.                                                      *)
(***************************************************************************)
nullptr == 0
SwellingOne == 10            \* 1.0f, swelling is kept in tenths

StemIds == 1..MaxStems
Pointers == StemIds \cup {nullptr}
MaterialIds == 0..MaxMaterial

Max(a, b) == IF a > b THEN a ELSE b
Abs(a) == IF a < 0 THEN -a ELSE a

RECURSIVE Gcd(_, _)
Gcd(a, b) == IF b = 0 THEN a ELSE Gcd(b, a % b)

RECURSIVE Flatten(_)
Flatten(ss) == IF ss = <<>> THEN <<>> ELSE Head(ss) \o Flatten(Tail(ss))

Last(s) == s[Len(s)]

(***************************************************************************)
(* The plant: the stem pool and the tree links of plant.cpp.               *)
(***************************************************************************)
NoLinks == [s \in StemIds |-> nullptr]

\* Plant::Plant: no root, nothing allocated, empty tables.
EmptyPlant(materials, leafMeshes) ==
    [root |-> nullptr, pool |-> {}, parent |-> NoLinks, child |-> NoLinks,
     nextSibling |-> NoLinks, prevSibling |-> NoLinks,
     stems |-> <<>>, materials |-> materials, leafMeshes |-> leafMeshes]

\* StemPool::allocate: the lowest free slot of the pool.
StemPool_allocate(pl) ==
    CHOOSE s \in StemIds \ pl.pool : \A t \in StemIds \ pl.pool : s <= t

RECURSIVE Subtree(_, _, _)
\* The stems deallocateStems(stem) visits: stem and, through child and
\* nextSibling, everything below it.
Subtree(pl, stem, fuel) ==
    IF stem = nullptr \/ fuel = 0 THEN {}
    ELSE LET Sibs[c \in Pointers, n \in 0..MaxStems] ==
                 IF c = nullptr \/ n = 0 THEN {}
                 ELSE Subtree(pl, c, fuel - 1)
                      \cup Sibs[pl.nextSibling[c], n - 1]
         IN {stem} \cup Sibs[pl.child[stem], MaxStems]

Plant_deallocateStems(pl, stem) ==
    [pl EXCEPT !.pool = @ \ Subtree(pl, stem, MaxStems)]

Plant_removeRoot(pl) ==
    IF pl.root # nullptr
    THEN [Plant_deallocateStems(pl, pl.root) EXCEPT !.root = nullptr]
    ELSE pl

Plant_createRoot(pl) ==
    LET freed == IF pl.root # nullptr THEN Plant_deallocateStems(pl, pl.root) ELSE pl
        stem == StemPool_allocate(freed)
    IN [freed EXCEPT !.root = stem, !.pool = @ \cup {stem},
                     !.parent[stem] = nullptr, !.child[stem] = nullptr,
                     !.nextSibling[stem] = nullptr,
                     !.prevSibling[stem] = nullptr]

\* Plant::addStem: the new stem becomes the first child of parent.
Plant_addStem(pl, parent) ==
    IF parent = nullptr THEN Plant_createRoot(pl)
    ELSE LET stem == StemPool_allocate(pl)
             firstChild == pl.child[parent]
             linked == [pl EXCEPT !.pool = @ \cup {stem},
                                  !.parent[stem] = parent,
                                  !.child[stem] = nullptr,
                                  !.child[parent] = stem]
             back == IF firstChild # nullptr
                     THEN [linked EXCEPT !.prevSibling[firstChild] = stem]
                     ELSE linked
         IN [back EXCEPT !.nextSibling[stem] = firstChild,
                         !.prevSibling[stem] = nullptr]

RECURSIVE BuildPlant(_, _)
\* The plant after one addStem call per entry of parents, in order.
BuildPlant(pl, parents) ==
    IF parents = <<>> THEN pl
    ELSE BuildPlant(Plant_addStem(pl, Head(parents)), Tail(parents))

\* The stems a traversal from the root reaches through child and nextSibling.
Reachable(pl) == Subtree(pl, pl.root, MaxStems)

\* Plant::decouple: unlinks stem from its siblings and its parent; every read
\* sees the writes before it, as in the code.
Plant_decouple(pl, stem) ==
    LET unrooted == IF stem = pl.root THEN [pl EXCEPT !.root = nullptr] ELSE pl
        forward == IF unrooted.prevSibling[stem] # nullptr
                   THEN [unrooted EXCEPT !.nextSibling[unrooted.prevSibling[stem]] =
                                             unrooted.nextSibling[stem]]
                   ELSE unrooted
        backward == IF forward.nextSibling[stem] # nullptr
                    THEN [forward EXCEPT !.prevSibling[forward.nextSibling[stem]] =
                                             forward.prevSibling[stem]]
                    ELSE forward
        parent == backward.parent[stem]
    IN IF parent # nullptr /\ backward.child[parent] = stem
       THEN [backward EXCEPT !.child[parent] =
                 IF backward.prevSibling[stem] # nullptr
                 THEN backward.prevSibling[stem]
                 ELSE backward.nextSibling[stem]]
       ELSE backward

\* insertStem without the back link of the former first child.
Plant_insertStemOneWay(pl, stem, parent) ==
    LET firstChild == pl.child[parent]
        headed == [pl EXCEPT !.child[parent] = stem]
        owned == [headed EXCEPT !.parent[stem] = parent]
        chained == [owned EXCEPT !.nextSibling[stem] = firstChild]
    IN [chained EXCEPT !.prevSibling[stem] = nullptr]

\* Plant::insertStem: stem becomes the first child of parent.
Plant_insertStem(pl, stem, parent) ==
    LET firstChild == pl.child[parent]
        headed == [pl EXCEPT !.child[parent] = stem]
        owned == [headed EXCEPT !.parent[stem] = parent]
        back == IF firstChild # nullptr
                THEN [owned EXCEPT !.prevSibling[firstChild] = stem]
                ELSE owned
        chained == [back EXCEPT !.nextSibling[stem] = firstChild]
    IN [chained EXCEPT !.prevSibling[stem] = nullptr]

\* Plant::move for a value without children: a stem is allocated, its links
\* are cleared and it is handed to insertStem.
Plant_move(pl, parent) ==
    LET stem == StemPool_allocate(pl)
        cleared == [pl EXCEPT !.pool = @ \cup {stem},
                              !.child[stem] = nullptr,
                              !.parent[stem] = nullptr,
                              !.nextSibling[stem] = nullptr,
                              !.prevSibling[stem] = nullptr]
    IN Plant_insertStem(cleared, stem, parent)

Plant_deleteStem(pl, stem) ==
    Plant_deallocateStems(Plant_decouple(pl, stem), stem)

\* Plant::Extraction as the tree operations use it: the address of the stem
\* and its parent.  The copied value only carries the stem's attributes back,
\* reinsertStem clears every link it holds.
Extraction(pl, stem) == [address |-> stem, parent |-> pl.parent[stem]]

RECURSIVE Plant_copy(_, _, _)
\* Plant::copy: stem first, then each child's subtree in sibling order.
Plant_copy(pl, stem, fuel) ==
    IF stem = nullptr \/ fuel = 0 THEN <<>>
    ELSE LET Sibs[c \in Pointers, n \in 0..MaxStems] ==
                 IF c = nullptr \/ n = 0 THEN <<>>
                 ELSE Plant_copy(pl, c, fuel - 1)
                      \o Sibs[pl.nextSibling[c], n - 1]
         IN <<Extraction(pl, stem)>> \o Sibs[pl.child[stem], MaxStems]

\* The stems in the order a traversal from the root visits them.
Visits(pl) == Plant_copy(pl, pl.root, MaxStems)

\* The tree reachable from the root is well linked: every stem on it is
\* allocated, a first child has no previous sibling and names its parent,
\* next and previous sibling agree and share the parent, and the traversal
\* meets no stem twice.
WellLinked(pl) ==
    /\ \A s \in Reachable(pl) :
          /\ s \in pl.pool
          /\ pl.child[s] # nullptr =>
                /\ pl.prevSibling[pl.child[s]] = nullptr
                /\ pl.parent[pl.child[s]] = s
          /\ pl.nextSibling[s] # nullptr =>
                /\ pl.prevSibling[pl.nextSibling[s]] = s
                /\ pl.parent[pl.nextSibling[s]] = pl.parent[s]
    /\ \A i, j \in 1..Len(Visits(pl)) :
          i # j => Visits(pl)[i].address # Visits(pl)[j].address

\* StemPool::allocateAt: the slot at the address is taken again.
StemPool_allocateAt(pl, address) == [pl EXCEPT !.pool = @ \cup {address}]

\* Plant::reinsertStem: the stem returns at its address as the first child of
\* the extraction's parent, or as the root of a rootless plant.
Plant_reinsertStem(pl, extraction) ==
    LET address == extraction.address
        allocated == StemPool_allocateAt(pl, address)
        cleared == [allocated EXCEPT !.child[address] = nullptr,
                                     !.parent[address] = nullptr,
                                     !.nextSibling[address] = nullptr,
                                     !.prevSibling[address] = nullptr]
    IN IF extraction.parent # nullptr
       THEN Plant_insertStem(cleared, address, extraction.parent)
       ELSE IF pl.root = nullptr
            THEN [cleared EXCEPT !.root = address]
            ELSE cleared

RECURSIVE Plant_reinsertStems(_, _)
\* Plant::reinsertStems: one reinsertStem per extraction, in list order.
Plant_reinsertStems(pl, extractions) ==
    IF extractions = <<>> THEN pl
    ELSE Plant_reinsertStems(Plant_reinsertStem(pl, Head(extractions)),
                             Tail(extractions))

(***************************************************************************)
(* Stems, paths, joints and leaves as the mesh reads them.  A stem is      *)
(*   [material |-> [outer, inner], sectionDivisions, collarDivisions,      *)
(*    path |-> [size, divisions], swelling |-> <<x, y>> (tenths),          *)
(*    minRadius, joints |-> Seq([id, pathIndex]),                          *)
(*    leaves |-> Seq([position, material, mesh]),                          *)
(*    location |-> <<x, y, z>> of "finite" | "nan" | "inf", distance].     *)
(***************************************************************************)
Stem_hasJoints(stem) == stem.joints # <<>>

\* Path::getSegmentLength / the distance between two neighbouring samples.
Path_getSegmentLength(path, section) == 1

\* Path::getDistance(start, end): the length of the path between two samples.
Path_getDistance(path, start, end) == end - start

\* Path::getLength: the length of the whole path.
Path_getLength(path) == IF path.size = 0 THEN 0 ELSE path.size - 1

\* Path::getIndex(position): the sample at or before a distance along the
\* path; a position off the path snaps to the final sample.
Path_getIndex(path, position) ==
    IF position < 0 \/ position >= Path_getLength(path)
    THEN Max(path.size - 1, 0)
    ELSE position

\* CrossSection::getVertices: a ring has one vertex more than divisions.
CrossSection_getVertices(resolution) == resolution + 1

\* Plant::getMaterial: std::map::at throws std::out_of_range on a miss.
Plant_getMaterial(pl, id) ==
    IF id \in DOMAIN pl.materials
    THEN [fault |-> "none", ratio |-> pl.materials[id]]
    ELSE [fault |-> "out_of_range", ratio |-> 0]

\* Plant::getLeafMesh: id 0 is the built-in geometry, any other id is looked
\* up with std::map::at.
Plant_getLeafMesh(pl, id) ==
    IF id # 0
    THEN IF id \in DOMAIN pl.leafMeshes
         THEN [fault |-> "none", geom |-> pl.leafMeshes[id]]
         ELSE [fault |-> "out_of_range", geom |-> [points |-> 0, indices |-> <<>>]]
    ELSE [fault |-> "none",
          geom |-> [points |-> 4, indices |-> <<0, 1, 2, 0, 2, 3>>]]

getAspect(pl, stem) ==
    LET materialID == stem.material.outer
    IN IF materialID > 0
       THEN Plant_getMaterial(pl, materialID)
       ELSE [fault |-> "none", ratio |-> 1]

\* Mesh::getTextureLength, in units of 1/(2 pi radius).
getTextureLength(pl, stem, section) ==
    IF section > 0
    THEN LET length == Path_getSegmentLength(stem.path, section)
             aspect == getAspect(pl, stem)
         IN [fault |-> aspect.fault, length |-> length * aspect.ratio]
    ELSE [fault |-> "none", length |-> 0]

(***************************************************************************)
(* Skinning weights.  A pair of weights is <<x, y, den>>: the fractions    *)
(* x/den and y/den in lowest terms; den = 0 is a non-finite float (the     *)
(* result of a division by a zero distance).                               *)
(***************************************************************************)
Weights(x, y, den) ==
    IF den = 0 THEN <<x, y, 0>>
    ELSE LET g == Gcd(Gcd(Abs(x), Abs(y)), den)
         IN <<x \div g, y \div g, den \div g>>

\* How jointOffset / distance compares with 0.5f.
RatioToHalf(jointOffset, distance) ==
    IF distance = 0
    THEN IF jointOffset > 0 THEN "gt"
         ELSE IF jointOffset < 0 THEN "lt" ELSE "nan"
    ELSE IF 2 * jointOffset = distance THEN "eq"
         ELSE IF 2 * jointOffset < distance THEN "lt" ELSE "gt"

\* setJointInfo treating every joint as it treats the first: below the
\* midpoint the vertex is wholly on the current joint.
setJointInfoAlike(stem, jointOffset, jointIndex) ==
    LET joints == stem.joints
        path == stem.path
        pathIndex == joints[jointIndex + 1].pathIndex
        jointID == joints[jointIndex + 1].id
        lastJoint == jointIndex + 1 >= Len(joints)
        distance == IF lastJoint
                    THEN Path_getDistance(path, pathIndex, path.size - 1)
                    ELSE Path_getDistance(path, pathIndex,
                                          joints[jointIndex + 2].pathIndex)
        ratio == RatioToHalf(jointOffset, distance)
    IN IF ratio \in {"eq", "lt", "nan"} \/ lastJoint
       THEN [fault |-> "none", weights |-> <<1, 0, 1>>,
             indices |-> <<jointID, jointID>>]
       ELSE [fault |-> "none",
             weights |-> Weights(3 * distance - 2 * jointOffset,
                                 2 * jointOffset - distance, 2 * distance),
             indices |-> <<jointID, joints[jointIndex + 2].id>>]

setJointInfo(stem, jointOffset, jointIndex) ==
    LET joints == stem.joints
        path == stem.path
        pathIndex == joints[jointIndex + 1].pathIndex
        jointID == joints[jointIndex + 1].id
        lastJoint == jointIndex + 1 >= Len(joints)
        distance == IF lastJoint
                    THEN Path_getDistance(path, pathIndex, path.size - 1)
                    ELSE Path_getDistance(path, pathIndex,
                                          joints[jointIndex + 2].pathIndex)
        ratio == RatioToHalf(jointOffset, distance)
        first == ratio = "lt" /\ jointIndex = 0
        last == ratio = "gt" /\ lastJoint
    IN IF ratio = "eq" \/ first \/ last
       THEN [fault |-> "none", weights |-> <<1, 0, 1>>,
             indices |-> <<jointID, jointID>>]
       ELSE IF ratio = "gt"
       THEN [fault |-> "none",
             weights |-> IF distance = 0 THEN <<-1, 1, 0>>
                         ELSE Weights(3 * distance - 2 * jointOffset,
                                      2 * jointOffset - distance, 2 * distance),
             indices |-> <<jointID, joints[jointIndex + 2].id>>]
       ELSE IF jointIndex = 0
       THEN [fault |-> "ub_joint", weights |-> <<0, 0, 0>>,
             indices |-> <<jointID, jointID>>]
       ELSE [fault |-> "none",
             weights |-> IF distance = 0
                         THEN (IF ratio = "nan" THEN <<0, 0, 0>> ELSE <<-1, 1, 0>>)
                         ELSE Weights(distance + 2 * jointOffset,
                                      distance - 2 * jointOffset, 2 * distance),
             indices |-> <<jointID, joints[jointIndex].id>>]

getJoint(position, stem) ==
    LET index == Path_getIndex(stem.path, position)
        joints == stem.joints
        after == {k \in 1..Len(joints) : joints[k].pathIndex > index}
    IN IF after = {}
       THEN [index |-> Len(joints) - 1, joint |-> Last(joints)]
       ELSE LET k == CHOOSE i \in after : \A j \in after : i <= j
                b == IF k > 1 THEN k - 1 ELSE k
            IN [index |-> b - 1, joint |-> joints[b]]

incrementJoint(state, joints) ==
    IF state.jointIndex + 1 < Len(joints)
       /\ joints[state.jointIndex + 2].pathIndex = state.section
    THEN [state EXCEPT !.jointIndex = @ + 1,
                       !.jointID = joints[state.jointIndex + 2].id,
                       !.jointOffset = 0]
    ELSE state

\* Mesh::updateJointState: the joint state after the ring at state.section,
\* with the ring's joint indices and weights.
\* updateJointState without the branch for the first and the last section.
updateJointStateUnpinned(state0, stem) ==
    LET joints == stem.joints
        state == incrementJoint(state0, joints)
        pathIndex == joints[state.jointIndex + 1].pathIndex
        single == [fault |-> "none", state |-> state, weights |-> <<1, 0, 1>>,
                   indices |-> <<state.jointID, state.jointID>>]
    IN IF state.jointIndex = 0 /\ state.section <= pathIndex THEN single
       ELSE IF state.section = pathIndex
       THEN [fault |-> "none", state |-> state, weights |-> <<1, 1, 2>>,
             indices |-> <<state.jointID, joints[state.jointIndex].id>>]
       ELSE LET moved == [state EXCEPT !.jointOffset =
                            @ + Path_getSegmentLength(stem.path, state.section)]
                info == setJointInfo(stem, moved.jointOffset, moved.jointIndex)
            IN [fault |-> info.fault, state |-> moved,
                weights |-> info.weights, indices |-> info.indices]

updateJointState(state0, stem) ==
    LET joints == stem.joints
        state == incrementJoint(state0, joints)
        pathIndex == joints[state.jointIndex + 1].pathIndex
        single == [fault |-> "none", state |-> state, weights |-> <<1, 0, 1>>,
                   indices |-> <<state.jointID, state.jointID>>]
    IN IF state.jointIndex = 0 /\ state.section <= pathIndex THEN single
       ELSE IF state.section = 0 \/ state.section = stem.path.size - 1
       THEN single
       ELSE IF state.section = pathIndex
       THEN [fault |-> "none", state |-> state, weights |-> <<1, 1, 2>>,
             indices |-> <<state.jointID, joints[state.jointIndex].id>>]
       ELSE LET moved == [state EXCEPT !.jointOffset =
                            @ + Path_getSegmentLength(stem.path, state.section)]
                info == setJointInfo(stem, moved.jointOffset, moved.jointIndex)
            IN [fault |-> info.fault, state |-> moved,
                weights |-> info.weights, indices |-> info.indices]

\* setInitialJointState taking, for a stem without joints, the joint the
\* parent's walk ended on, whether or not the parent has joints.
setInitialJointStateFromWalk(pl, state, parentState) ==
    LET stem == pl.stems[state.segment.stem]
        zero == [state EXCEPT !.jointID = 0, !.jointIndex = 0,
                              !.jointOffset = 0]
    IN IF stem.joints = <<>>
       THEN [zero EXCEPT !.jointID = parentState.jointID]
       ELSE [zero EXCEPT !.jointID = stem.joints[1].id]

\* Mesh::setInitialJointState.
setInitialJointState(pl, state, parentState) ==
    LET stem == pl.stems[state.segment.stem]
        parent == pl.parent[state.segment.stem]
        joints == stem.joints
        zero == [state EXCEPT !.jointID = 0, !.jointIndex = 0,
                              !.jointOffset = 0]
    IN IF joints = <<>>
          /\ (parent = nullptr \/ ~Stem_hasJoints(pl.stems[parent]))
       THEN [zero EXCEPT !.jointID = parentState.jointID]
       ELSE IF joints = <<>>
       THEN LET pair == getJoint(stem.distance, pl.stems[parent])
            IN [zero EXCEPT !.jointID = pair.joint.id,
                            !.jointIndex = pair.index]
       ELSE [zero EXCEPT !.jointID = joints[1].id]

(***************************************************************************)
(* The mesh.  mesh = [vertices, indices, stemSegments, leafSegments], one  *)
(* entry per material buffer (buffer m is entry m + 1).  A vertex is       *)
(* [position, uv, indices, weights]; a State is the struct addStem hands   *)
(* down; an operator that can fail works on c = [mesh, state, fault].      *)
(* Faults: "out_of_range" is the exception std::map::at throws; "ub_..."   *)
(* is an access outside a vector, which is undefined behaviour.            *)
(***************************************************************************)
ZeroVertex ==
    [position |-> [kind |-> "zero", stem |-> 0, section |-> 0, i |-> 0,
                   rotation |-> <<>>],
     uv |-> <<"zero", 0, 0>>, indices |-> <<0, 0>>, weights |-> <<0, 0, 1>>]

ZeroSegment ==
    [stem |-> nullptr, leafIndex |-> 0, vertexStart |-> 0, vertexCount |-> 0,
     indexStart |-> 0, indexCount |-> 0]

\* State state = {} of Mesh::generate.
ZeroState ==
    [mesh |-> 0, segment |-> ZeroSegment, jointID |-> 0, jointIndex |-> 0,
     jointOffset |-> 0, texOffset |-> 0, prevIndex |-> 0, section |-> 0,
     prevRotation |-> <<>>, prevDirection |-> -1]

getMeshCount(mesh) == Len(mesh.indices)

HasBuffer(mesh, m) == m >= 0 /\ m < Len(mesh.vertices)

VertexCountOf(mesh, m) == Len(mesh.vertices[m + 1])
IndexCountOf(mesh, m) == Len(mesh.indices[m + 1])

selectBuffer(material) == material

initBuffer(pl) ==
    LET size == Cardinality(DOMAIN pl.materials)
    IN [vertices |-> [m \in 1..size |-> <<>>],
        indices |-> [m \in 1..size |-> <<>>],
        stemSegments |-> [m \in 1..size |-> <<>>],
        leafSegments |-> [m \in 1..size |-> <<>>]]

hasValidLocation(stem) == stem.location[1] # "nan"

\* std::map::emplace: a key already present keeps its value.
Emplace(map, key, value) == map @@ (key :> value)

addTriangle(mesh, m, a, b, c) ==
    [mesh EXCEPT !.indices[m + 1] = @ \o <<a, b, c>>]

\* A ring of triangles that is one quad short.
TriangleRingOpen(prevIndex, index, divisions) ==
    [k \in 1..(6 * Max(divisions - 1, 0)) |->
        IF (k - 1) % 6 \in {0, 1, 4} THEN index + (k - 1) \div 6
        ELSE prevIndex + (k - 1) \div 6]

\* The indices addTriangleRing appends, in order.
TriangleRing(prevIndex, index, divisions) ==
    [k \in 1..(6 * Max(divisions, 0)) |->
        LET i == (k - 1) \div 6
            r == (k - 1) % 6
        IN CASE r = 0 -> index + i
             [] r = 1 -> index + i + 1
             [] r = 2 -> prevIndex + i
             [] r = 3 -> prevIndex + i
             [] r = 4 -> index + i + 1
             [] OTHER -> prevIndex + i + 1]

addTriangleRing(mesh, prevIndex, index, divisions, m) ==
    [mesh EXCEPT !.indices[m + 1] = @ \o TriangleRing(prevIndex, index, divisions)]

\* rotateIntoVecQ(from, to) * rotation, kept as the word of turns made: a
\* turn back along the turn just made cancels it.
Turn(rotation, from, to) ==
    IF from = to THEN rotation
    ELSE IF rotation # <<>> /\ Last(rotation) = <<to, from>>
    THEN SubSeq(rotation, 1, Len(rotation) - 1)
    ELSE Append(rotation, <<from, to>>)

\* Mesh::setInitialRotation: the up axis is direction -1, the direction of
\* the stem at its base is direction -2, the average direction at sample s
\* is direction s.
setInitialRotation(pl, state) ==
    IF pl.parent[state.segment.stem] # nullptr
    THEN [state EXCEPT !.prevRotation = <<>>, !.prevDirection = -2]
    ELSE [state EXCEPT !.prevRotation = <<>>, !.prevDirection = -1]

rotateSection(state) ==
    LET rotation == Turn(state.prevRotation, state.prevDirection, state.section)
    IN [state EXCEPT !.prevRotation = rotation,
                     !.prevDirection = state.section]

\* Mesh::addSection, after state = rotateSection(state): the ring of the
\* sample state.section, appended to the stem's buffer.
addSection(pl, c) ==
    LET state == c.state
        id == state.segment.stem
        stem == pl.stems[id]
        tex == getTextureLength(pl, stem, state.section)
        uvy == tex.length + state.texOffset
        textured == [state EXCEPT !.texOffset = uvy]
        skin == IF Len(stem.joints) > 0
                THEN updateJointState(textured, stem)
                ELSE [fault |-> "none", state |-> textured,
                      indices |-> <<state.jointID, 0>>,
                      weights |-> <<1, 0, 1>>]
        ring == [i \in 1..CrossSection_getVertices(stem.sectionDivisions) |->
                    [position |-> [kind |-> "section", stem |-> id,
                                   section |-> state.section, i |-> i - 1,
                                   rotation |-> state.prevRotation],
                     uv |-> <<"tube", i - 1, uvy>>,
                     indices |-> skin.indices, weights |-> skin.weights]]
    IN IF c.fault # "none" THEN c
       ELSE IF tex.fault # "none" THEN [c EXCEPT !.fault = tex.fault]
       ELSE IF state.section >= stem.path.size THEN [c EXCEPT !.fault = "ub_path"]
       ELSE IF skin.fault # "none" THEN [c EXCEPT !.fault = skin.fault]
       ELSE [mesh |-> [c.mesh EXCEPT !.vertices[state.mesh + 1] = @ \o ring],
             state |-> skin.state, fault |-> "none"]

\* A cap whose fan has one pair of triangles more.
CapTrianglesWide(section, divisions) ==
    LET pairs == Max(divisions \div 2, 0)
        fan == [k \in 1..(6 * pairs) |-> section + (k - 1) \div 6]
        lastSection == section + pairs
    IN IF divisions % 2 # 0
       THEN fan \o <<lastSection, lastSection + 2, lastSection + 1>>
       ELSE fan

\* The triangles Mesh::capStem adds for a cap whose vertices start at
\* section.
CapTriangles(section, divisions) ==
    LET pairs == Max(divisions \div 2 - 1, 0)
        fan == [k \in 1..(6 * pairs) |->
                   LET index == (k - 1) \div 6
                       r == (k - 1) % 6
                   IN CASE r = 0 -> section + index
                        [] r = 1 -> section + divisions - index - 1
                        [] r = 2 -> section + index + 1
                        [] r = 3 -> section + index + 1
                        [] r = 4 -> section + divisions - index - 1
                        [] OTHER -> section + divisions - index - 2]
        lastSection == section + pairs
    IN IF divisions % 2 # 0
       THEN fan \o <<lastSection, lastSection + 2, lastSection + 1>>
       ELSE fan

\* Mesh::capStem(stem, state.mesh, state.prevIndex).
capStem(pl, c) ==
    LET stem == pl.stems[c.state.segment.stem]
        stemMesh == c.state.mesh
        mesh == selectBuffer(stem.material.inner)
        index == c.state.prevIndex
        divisions == stem.sectionDivisions
        section == VertexCountOf(c.mesh, mesh)
        cap == [i \in 1..(divisions + 1) |->
                   [c.mesh.vertices[stemMesh + 1][index + i]
                       EXCEPT !.uv = <<"disc", i - 1, i - 1>>]]
    IN IF c.fault # "none" THEN c
       ELSE IF ~HasBuffer(c.mesh, mesh) THEN [c EXCEPT !.fault = "ub_buffer"]
       ELSE IF index + divisions + 1 > VertexCountOf(c.mesh, stemMesh)
       THEN [c EXCEPT !.fault = "ub_vertex"]
       ELSE [c EXCEPT !.mesh.vertices[mesh + 1] = @ \o cap,
                      !.mesh.indices[mesh + 1] =
                          @ \o CapTriangles(section, divisions)]

\* A resize that never shortens the vector.
ResizeGrowOnly(vector, size, zero) ==
    IF size <= Len(vector) THEN vector
    ELSE vector \o [k \in 1..(size - Len(vector)) |-> zero]

\* std::vector::resize: truncate, or extend with value-initialised vertices.
Resize(vector, size, zero) ==
    IF size <= Len(vector) THEN SubSeq(vector, 1, size)
    ELSE vector \o [k \in 1..(size - Len(vector)) |-> zero]

getBranchCollarSize(stem) ==
    (stem.sectionDivisions + 1) * stem.collarDivisions

\* A reservation that sizes the buffer for the collar alone.
reserveBranchCollarSpaceAlone(mesh, stem, m) ==
    [mesh EXCEPT !.vertices[m + 1] =
        Resize(@, getBranchCollarSize(stem), ZeroVertex)]

reserveBranchCollarSpace(mesh, stem, m) ==
    LET size == getBranchCollarSize(stem) + VertexCountOf(mesh, m)
    IN [mesh EXCEPT !.vertices[m + 1] = Resize(@, size, ZeroVertex)]

\* A lookup that stops after the first buffer.
findStemFirstBuffer(mesh, stem) ==
    IF mesh.stemSegments # <<>> /\ stem \in DOMAIN mesh.stemSegments[1]
    THEN mesh.stemSegments[1][stem]
    ELSE ZeroSegment

\* Mesh::findStem: the first buffer whose map holds the stem; a Segment of
\* zeros when none does.
findStem(mesh, stem) ==
    LET found == {m \in 1..Len(mesh.stemSegments) :
                     stem \in DOMAIN mesh.stemSegments[m]}
    IN IF found = {} THEN ZeroSegment
       ELSE mesh.stemSegments[CHOOSE m \in found : \A n \in found : m <= n][stem]

\* Mesh::findLeaf, leaf = <<stem, leafIndex>>.
findLeaf(mesh, leaf) ==
    LET found == {m \in 1..Len(mesh.leafSegments) :
                     leaf \in DOMAIN mesh.leafSegments[m]}
    IN IF found = {} THEN ZeroSegment
       ELSE mesh.leafSegments[CHOOSE m \in found : \A n \in found : m <= n][leaf]

\* The probes of connectCollar, in order: for each division the ray of the
\* scaled point, then the ray of the unscaled point.
Probes(stem) == (0..stem.sectionDivisions) \X {"scaled", "init"}
NoMiss == <<-1, "none">>

\* Mesh::moveToSurface reads every index of the parent's segment and the
\* vertex it names.
SurfaceInRange(mesh, parent, mesh2) ==
    \A k \in (parent.indexStart + 1)..(parent.indexStart + parent.indexCount) :
        /\ k <= IndexCountOf(mesh, mesh2)
        /\ mesh.indices[mesh2 + 1][k] < VertexCountOf(mesh, mesh2)

\* A marker that names the sample of ring B itself.
CollarMarkerShort(pathDivisions) == pathDivisions + 1

\* Mesh::connectCollar: the marker of a fused collar, the first sample the
\* caller has yet to emit.
CollarMarker(pathDivisions) == pathDivisions + 2

\* A collar whose rings are taken to be one vertex shorter than they are.
CollarOffsetNarrow(vertexStart, sectionDivisions, i, j) ==
    vertexStart + i + sectionDivisions * j

\* Mesh::connectCollar: where the spline sample j of division i is written.
CollarOffset(vertexStart, sectionDivisions, i, j) ==
    vertexStart + i + (sectionDivisions + 1) * j

\* Mesh::connectCollar(state.segment, parent, vertexStart).  miss is the
\* first probe whose ray meets no triangle of the parent (NoMiss: every ray
\* meets one); a parent without triangles is met by no ray.
connectCollar(pl, c, parent, vertexStart, miss) ==
    LET child == c.state.segment
        stem == pl.stems[child.stem]
        mesh1 == selectBuffer(stem.material.outer)
        mesh2 == selectBuffer(pl.stems[parent.stem].material.outer)
        sectionDivisions == stem.sectionDivisions
        collarDivisions == stem.collarDivisions
        pathDivisions == stem.path.divisions
        collarSize == getBranchCollarSize(stem)
        size == sectionDivisions + 1
        old == c.mesh.vertices[mesh1 + 1]
        lastIndex == vertexStart + collarSize
        aspect == getAspect(pl, stem)
        Ring(k) == (k - child.vertexStart - 1) \div size
        Place(k) == (k - child.vertexStart - 1) % size
        Uv(k) == LET uv == old[lastIndex + Place(k) + 1].uv
                 IN <<uv[1], uv[2],
                      uv[3] - (collarDivisions + 1 - Ring(k)) * aspect.ratio>>
        samples == (0..sectionDivisions) \X (0..(collarDivisions - 1))
        Written(k) == {w \in samples :
                          CollarOffset(vertexStart, sectionDivisions, w[1], w[2])
                              = k - 1}
        outside == \E w \in samples :
                       CollarOffset(vertexStart, sectionDivisions, w[1], w[2])
                           >= Len(old)
        Moved(k) == k - 1 >= child.vertexStart
                    /\ k - 1 <= child.vertexStart + sectionDivisions
        Retextured(k) == k > child.vertexStart /\ k <= lastIndex
        fused == [k \in 1..Len(old) |->
                    IF Written(k) # {}
                    THEN LET w == CHOOSE v \in Written(k) :
                                      \A u \in Written(k) :
                                          u[1] < v[1]
                                          \/ (u[1] = v[1] /\ u[2] <= v[2])
                         IN [position |-> [kind |-> "spline", stem |-> child.stem,
                                           section |-> w[2], i |-> w[1],
                                           rotation |-> <<>>],
                             uv |-> IF Retextured(k) THEN Uv(k) ELSE <<"zero", 0, 0>>,
                             indices |-> old[child.vertexStart + w[1] + 1].indices,
                             weights |-> old[child.vertexStart + w[1] + 1].weights]
                    ELSE IF Moved(k)
                    THEN [position |-> [old[k].position EXCEPT !.kind = "surface"],
                          uv |-> IF Retextured(k) THEN Uv(k) ELSE old[k].uv,
                          indices |-> old[k].indices,
                          weights |-> old[k].weights]
                    ELSE IF Retextured(k)
                    THEN [old[k] EXCEPT !.uv = Uv(k)]
                    ELSE old[k]]
        rings == Flatten([k \in 1..(collarDivisions + 1) |->
                     TriangleRing(child.vertexStart + (k - 1) * size,
                                  child.vertexStart + k * size,
                                  sectionDivisions)])
    IN IF c.fault # "none" THEN [mesh |-> c.mesh, marker |-> 0, fault |-> c.fault]
       ELSE IF ~HasBuffer(c.mesh, mesh1) \/ ~HasBuffer(c.mesh, mesh2)
       THEN [mesh |-> c.mesh, marker |-> 0, fault |-> "ub_buffer"]
       ELSE IF sectionDivisions >= 0 /\ ~SurfaceInRange(c.mesh, parent, mesh2)
       THEN [mesh |-> c.mesh, marker |-> 0, fault |-> "ub_vertex"]
       ELSE IF sectionDivisions >= 0
               /\ child.vertexStart + sectionDivisions + collarSize
                      + sectionDivisions + 1 >= Len(old)
       THEN [mesh |-> c.mesh, marker |-> 0, fault |-> "ub_vertex"]
       ELSE IF sectionDivisions >= 0 /\ (parent.indexCount = 0 \/ miss # NoMiss)
       THEN [mesh |-> [c.mesh EXCEPT
                          !.vertices[mesh1 + 1] =
                              Resize(@, child.vertexStart, ZeroVertex),
                          !.indices[mesh1 + 1] = Resize(@, child.indexStart, 0)],
             marker |-> 0, fault |-> "none"]
       ELSE IF outside
       THEN [mesh |-> c.mesh, marker |-> 0, fault |-> "ub_vertex"]
       ELSE IF aspect.fault # "none"
       THEN [mesh |-> c.mesh, marker |-> 0, fault |-> aspect.fault]
       ELSE [mesh |-> [c.mesh EXCEPT !.vertices[mesh1 + 1] = fused,
                                     !.indices[mesh1 + 1] = @ \o rings],
             marker |-> CollarMarker(pathDivisions), fault |-> "none"]

\* Mesh::transformLeaf: the leaf's geometry; reading the final sample of a
\* path without samples is outside the vector.
transformLeaf(pl, leaf, stem) ==
    LET path == stem.path
        onPath == leaf.position >= 0 /\ leaf.position < Path_getLength(path)
        looked == Plant_getLeafMesh(pl, leaf.mesh)
    IN IF ~onPath /\ path.size = 0
       THEN [fault |-> "ub_path", geom |-> looked.geom]
       ELSE looked

\* Mesh::addLeaf(stem, leafIndex, state).
addLeaf(pl, mesh, id, leafIndex, state) ==
    LET stem == pl.stems[id]
        leaf == stem.leaves[leafIndex + 1]
        m == selectBuffer(leaf.material)
        vertexStart == VertexCountOf(mesh, m)
        indexStart == IndexCountOf(mesh, m)
        skin == IF Stem_hasJoints(stem)
                THEN LET pair == getJoint(leaf.position, stem)
                         jointPosition ==
                             Path_getDistance(stem.path, 0, pair.joint.pathIndex)
                     IN setJointInfo(stem, leaf.position - jointPosition,
                                     pair.index)
                ELSE [fault |-> "none", weights |-> <<1, 0, 1>>,
                      indices |-> <<state.jointID, state.jointID>>]
        geom == transformLeaf(pl, leaf, stem)
        points == [k \in 1..geom.geom.points |->
                      [position |-> [kind |-> "leaf", stem |-> id,
                                     section |-> leafIndex, i |-> k - 1,
                                     rotation |-> <<>>],
                       uv |-> <<"leaf", k - 1, 0>>,
                       indices |-> skin.indices, weights |-> skin.weights]]
        indices == [k \in 1..Len(geom.geom.indices) |->
                       geom.geom.indices[k] + vertexStart]
        filled == [mesh EXCEPT !.vertices[m + 1] = @ \o points,
                               !.indices[m + 1] = @ \o indices]
        leafSegment ==
            [stem |-> id, leafIndex |-> leafIndex,
             vertexStart |-> vertexStart,
             vertexCount |-> VertexCountOf(filled, m) - vertexStart,
             indexStart |-> indexStart,
             indexCount |-> IndexCountOf(filled, m) - indexStart]
    IN IF ~HasBuffer(mesh, m) THEN [mesh |-> mesh, fault |-> "ub_buffer"]
       ELSE IF skin.fault # "none" THEN [mesh |-> mesh, fault |-> skin.fault]
       ELSE IF geom.fault # "none" THEN [mesh |-> mesh, fault |-> geom.fault]
       ELSE [mesh |-> [filled EXCEPT !.leafSegments[m + 1] =
                          Emplace(@, <<id, leafIndex>>, leafSegment)],
             fault |-> "none"]

\* ShiftSegment moving both starts by the vertex total.
ShiftSegmentByVertices(segment, vsize, isize) ==
    [segment EXCEPT !.vertexStart = @ + vsize, !.indexStart = @ + vsize]

ShiftSegment(segment, vsize, isize) ==
    [segment EXCEPT !.vertexStart = @ + vsize, !.indexStart = @ + isize]

RECURSIVE UpdateFromLast(_, _, _, _)
\* UpdateFrom with a running total that forgets the buffers before the last.
UpdateFromLast(mesh, m, vsize, isize) ==
    IF m >= Len(mesh.indices) THEN mesh
    ELSE UpdateFromLast(
             [mesh EXCEPT
                 !.indices[m + 1] = [k \in 1..Len(@) |-> @[k] + vsize],
                 !.stemSegments[m + 1] =
                     [key \in DOMAIN @ |-> ShiftSegment(@[key], vsize, isize)],
                 !.leafSegments[m + 1] =
                     [key \in DOMAIN @ |-> ShiftSegment(@[key], vsize, isize)]],
             m + 1,
             Len(mesh.vertices[m + 1]),
             Len(mesh.indices[m + 1]))

RECURSIVE UpdateFrom(_, _, _, _)
\* The loop of Mesh::updateSegments from buffer m on, vsize and isize being
\* the sizes of the buffers before it.
UpdateFrom(mesh, m, vsize, isize) ==
    IF m >= Len(mesh.indices) THEN mesh
    ELSE UpdateFrom(
             [mesh EXCEPT
                 !.indices[m + 1] = [k \in 1..Len(@) |-> @[k] + vsize],
                 !.stemSegments[m + 1] =
                     [key \in DOMAIN @ |-> ShiftSegment(@[key], vsize, isize)],
                 !.leafSegments[m + 1] =
                     [key \in DOMAIN @ |-> ShiftSegment(@[key], vsize, isize)]],
             m + 1,
             vsize + Len(mesh.vertices[m + 1]),
             isize + Len(mesh.indices[m + 1]))

\* Mesh::updateSegments: indices and segments of buffer m >= 1 move by the
\* sizes of the buffers before it.
updateSegments(mesh) ==
    IF mesh.indices # <<>>
    THEN UpdateFrom(mesh, 1, Len(mesh.vertices[1]), Len(mesh.indices[1]))
    ELSE mesh

\* Mesh::getVertices() and Mesh::getIndices(): the buffers, concatenated.
getVertices(mesh) == Flatten(mesh.vertices)
getIndices(mesh) == Flatten(mesh.indices)


(***************************************************************************)
(* The plants generate() is run on.  Stems come from Plant::addStem, their *)
(* fields from the setters of pg::Stem; material and leaf-mesh tables from *)
(* Plant::addMaterial / removeMaterial and addLeafMesh / removeLeafMesh.   *)
(***************************************************************************)
Finite == <<"finite", "finite", "finite">>

DefaultStem ==
    [material |-> [outer |-> 0, inner |-> 0],
     sectionDivisions |-> 2, collarDivisions |-> 1,
     path |-> [size |-> 3, divisions |-> 1],
     swelling |-> <<0, 0>>, minRadius |-> 1,
     joints |-> <<>>, leaves |-> <<>>,
     location |-> Finite, distance |-> 0]

Leaf(position, material, leafMesh) ==
    [position |-> position, material |-> material, mesh |-> leafMesh]

Joint(id, pathIndex) == [id |-> id, pathIndex |-> pathIndex]

\* The parent of each stem in order of creation: the first is the root.
Shapes(n) ==
    {parents \in [1..n -> Pointers] :
        \A k \in 1..n : IF k = 1 THEN parents[k] = nullptr
                        ELSE parents[k] \in 1..(k - 1)}

MaterialTable(ids) == [id \in ids |-> id + 1]

NoLeafMeshes == [id \in {} |-> 0]
LeafMeshes == [id \in {1} |-> [points |-> 3, indices |-> <<0, 1, 2>>]]

MakePlant(ids, leafMeshes, parents, stems) ==
    [BuildPlant(EmptyPlant(MaterialTable(ids), leafMeshes), parents)
        EXCEPT !.stems = stems]

\* Material and leaf-mesh tables: complete, partial and empty.
Tables ==
    {<<0..MaxMaterial, LeafMeshes>>, <<0..MaxMaterial, NoLeafMeshes>>,
     <<0..(MaxMaterial - 1), LeafMeshes>>, <<1..MaxMaterial, LeafMeshes>>,
     <<{0, MaxMaterial}, LeafMeshes>>, <<{0}, LeafMeshes>>, <<{}, LeafMeshes>>}

Materials ==
    {[outer |-> m, inner |-> IF m = MaxMaterial THEN 0 ELSE m] : m \in MaterialIds}

LeafSets == {<<>>, <<Leaf(-1, 1, 0)>>, <<Leaf(0, 0, 1)>>}

Swellings == {<<0, 0>>, <<15, 15>>}

Locations ==
    {Finite, <<"nan", "finite", "finite">>, <<"finite", "finite", "nan">>,
     <<"inf", "inf", "inf">>}

\* A root and at most one child over every table, the stems differing in
\* material, leaves and swelling.
TabledRoots ==
    {[DefaultStem EXCEPT !.material = mt, !.leaves = lv] :
        mt \in Materials, lv \in LeafSets}

TabledChildren ==
    {[DefaultStem EXCEPT !.material = mt, !.leaves = lv, !.swelling = sw] :
        mt \in Materials, lv \in LeafSets, sw \in Swellings}

TabledPlants ==
    UNION {{MakePlant(t[1], t[2], <<>>, <<>>)}
           \cup {MakePlant(t[1], t[2], <<nullptr>>, <<r>>) : r \in TabledRoots}
           \cup {MakePlant(t[1], t[2], <<nullptr, 1>>, <<r, c>>) :
                    r \in TabledRoots, c \in TabledChildren} :
           t \in Tables}

\* Trees of MaxStems stems over the complete table, the stems differing in
\* material, leaves and swelling.
BranchMaterials == {[outer |-> m, inner |-> m] : m \in 0..1}
BranchLeaves == {<<>>, <<Leaf(-1, 1, 0)>>}

BranchRoots ==
    {[DefaultStem EXCEPT !.material = mt, !.leaves = lv] :
        mt \in BranchMaterials, lv \in BranchLeaves}

Branches ==
    {[DefaultStem EXCEPT !.material = mt, !.swelling = sw] :
        mt \in BranchMaterials, sw \in Swellings}

BranchedPlants ==
    UNION {{MakePlant(0..MaxMaterial, LeafMeshes, parents,
                      [k \in 1..MaxStems |-> IF k = 1 THEN r ELSE rest[k]]) :
               r \in BranchRoots, rest \in [2..MaxStems -> Branches]} :
           parents \in Shapes(MaxStems)}

\* Trees whose stems differ in location only.
LocatedPlants ==
    UNION {{MakePlant({0}, NoLeafMeshes, parents, stems) :
                stems \in [1..Len(parents) ->
                              {[DefaultStem EXCEPT !.location = l,
                                                   !.leaves = <<Leaf(0, 0, 0)>>] :
                                  l \in Locations}]} :
            parents \in Shapes(1) \cup Shapes(MaxStems)}

\* Paths: size samples, divisions between two control points.
Paths ==
    {path \in [size : 2..MaxPathSize, divisions : 0..1] :
        (path.size - 1) % (path.divisions + 1) = 0}

\* Joints of a stem: path indices strictly increasing, ids distinct.
JointSets(size, firstId) ==
    LET places == {js \in UNION {[1..k -> 0..(size - 1)] : k \in 0..MaxJoints} :
                      \A k \in 2..Len(js) : js[k - 1] < js[k]}
    IN {[k \in 1..Len(js) |-> Joint(firstId + k - 1, js[k])] : js \in places}

\* A root and one child, differing in paths, joints, leaves and swelling.
SkinnedRoots ==
    {[DefaultStem EXCEPT !.path = [size |-> 1, divisions |-> 0], !.joints = j] :
        j \in {<<>>, <<Joint(1, 0)>>}}
    \cup
    {[DefaultStem EXCEPT !.path = [size |-> 3, divisions |-> 0], !.joints = j] :
        j \in {<<>>, <<Joint(1, 0), Joint(2, 1)>>}}

SkinnedChildren ==
    UNION {{[DefaultStem EXCEPT !.path = path, !.joints = j, !.swelling = sw,
                                !.leaves = lv, !.distance = 1] :
               j \in JointSets(path.size, MaxJoints + 1), sw \in Swellings,
               lv \in {<<>>, <<Leaf(1, 0, 0)>>}} :
           path \in Paths}

SkinnedPlants ==
    {MakePlant({0}, NoLeafMeshes, <<nullptr, 1>>, <<r, c>>) :
        r \in SkinnedRoots, c \in SkinnedChildren}

\* A single stem, differing in the divisions of its cross section.
CappedPlants ==
    {MakePlant(0..1, NoLeafMeshes, <<nullptr>>,
               <<[DefaultStem EXCEPT !.sectionDivisions = d, !.minRadius = r,
                                     !.material.inner = n,
                                     !.path = [size |-> s, divisions |-> 0]]>>) :
        d \in 0..MaxDivisions, r \in {0, 1}, n \in {0, 1}, s \in 1..2}

\* A root alone: three samples, eight divisions, radius 1, material 0.
SingleStemPlant ==
    MakePlant(0..1, NoLeafMeshes, <<nullptr>>,
              <<[DefaultStem EXCEPT !.sectionDivisions = 8]>>)

\* Three stems, in a chain or as two children of the root, with and
\* without joints, attached at the start or at the end of the parent.
ChainRoots ==
    {[DefaultStem EXCEPT !.joints = j] :
        j \in {<<>>, <<Joint(1, 0), Joint(2, 1)>>, <<Joint(1, 1), Joint(2, 2)>>}}

ChainStems ==
    {[DefaultStem EXCEPT !.joints = j, !.distance = d,
                         !.leaves = <<Leaf(0, 0, 0)>>] :
        j \in {<<>>, <<Joint(3, 0), Joint(4, 1)>>}, d \in {0, 2}}

ChainedPlants ==
    {MakePlant({0}, NoLeafMeshes, parents, <<r, c, g>>) :
        parents \in {<<nullptr, 1, 2>>, <<nullptr, 1, 1>>},
        r \in ChainRoots, c \in ChainStems, g \in ChainStems}

\* A root and one child that asks for a collar, differing in the divisions
\* of the child's cross section and of its collar.
CollaredPlants ==
    {MakePlant({0}, NoLeafMeshes, <<nullptr, 1>>,
               <<DefaultStem,
                 [DefaultStem EXCEPT !.swelling = <<15, 15>>,
                                     !.sectionDivisions = d,
                                     !.collarDivisions = cd,
                                     !.path = path]>>) :
        d \in 1..2, cd \in {0, 2},
        path \in {[size |-> 3, divisions |-> 0], [size |-> 5, divisions |-> 1]}}

\* A stem whose path has no samples, as the root or as the child of a
\* default root, with or without a cap and a collar.
ZeroSampleStems ==
    {[DefaultStem EXCEPT !.path = [size |-> 0, divisions |-> 0],
                         !.minRadius = r, !.swelling = sw] :
        r \in {0, 1}, sw \in Swellings}

ZeroSamplePlants ==
    {MakePlant({0}, NoLeafMeshes, <<nullptr>>, <<z>>) : z \in ZeroSampleStems}
    \cup {MakePlant({0}, NoLeafMeshes, <<nullptr, 1>>, <<DefaultStem, z>>) :
              z \in ZeroSampleStems}

Plants ==
    TabledPlants \cup BranchedPlants \cup LocatedPlants \cup SkinnedPlants
    \cup CappedPlants \cup ZeroSamplePlants \cup ChainedPlants
    \cup CollaredPlants
    \cup {SingleStemPlant}

(***************************************************************************)
(* State.  plant is the plant the mesh reads; mesh is the Mesh object;     *)
(* stack holds one frame per active Mesh::addStem call: its State, the     *)
(* start of the reserved collar block, the next leaf and the child being   *)
(* visited (and, for the properties only, whether a collar was tried, the  *)
(* buffer sizes before it and the State createBranchCollar was entered     *)
(* with); pc is the place in Mesh::generate; fault is the exception or the *)
(* undefined access that ended the pass.                                   *)
(***************************************************************************)
VARIABLES plant, mesh, stack, pc, fault, history, extractions, original, walk

vars == <<plant, mesh, stack, pc, fault, history, extractions, original, walk>>

NewFrame(stem) ==
    [state |-> [ZeroState EXCEPT !.segment.stem = stem],
     collarStart |-> 0, leaf |-> 0, child |-> nullptr,
     collar |-> "none", before |-> [vertexCount |-> 0, indexCount |-> 0],
     entry |-> ZeroState]

Top == stack[Len(stack)]
SetTop(frame) == [stack EXCEPT ![Len(stack)] = frame]

\* How a step ends: an exception leaves generate(); an access outside a
\* vector either kills the process or lets it run on in an undefined state.
Outcomes(f) ==
    IF f = "out_of_range" THEN {"threw"} ELSE {"crashed", "undefined"}

Leave(f, next, mesh2, stack2) ==
    IF f = "none"
    THEN pc' = next /\ mesh' = mesh2 /\ stack' = stack2
         /\ UNCHANGED <<plant, extractions, original, walk, fault>>
    ELSE pc' \in Outcomes(f) /\ fault' = f /\ UNCHANGED <<plant, extractions, original, walk, mesh, stack>>

Finish(f, next, mesh2, stack2) ==
    Leave(f, next, mesh2, stack2) /\ UNCHANGED history

\* What is remembered of the passes made since the plant last changed: how
\* many have finished, the mesh the first of them left, and how each
\* stem's collar attempt ended (the geometry of an unchanged plant gives
\* the same intersection tests in every pass).
NoHistory ==
    [passes |-> 0,
     result |-> [vertices |-> <<>>, indices |-> <<>>,
                 stemSegments |-> <<>>, leafSegments |-> <<>>],
     collars |-> [s \in StemIds |-> "none"]]

\* A pass has finished and left mesh2.
Passed(mesh2) ==
    [history EXCEPT !.passes = @ + 1,
                    !.result = IF history.passes = 0 THEN mesh2 ELSE @]

\* Mesh::generate up to the call of addStem for the root.
Generate ==
    /\ pc = "idle"
    /\ mesh' = initBuffer(plant)
    /\ IF plant.root # nullptr
       THEN stack' = <<NewFrame(plant.root)>> /\ pc' = "addStem"
            /\ UNCHANGED history
       ELSE stack' = <<>> /\ pc' = "done"
            /\ history' = Passed(initBuffer(plant))
    /\ UNCHANGED <<plant, extractions, original, walk, fault>>

\* Mesh::addStem and Mesh::addSections up to createBranchCollar.
AddStemEnter ==
    /\ pc = "addStem"
    /\ LET id == Top.state.segment.stem
           stem == plant.stems[id]
           m == selectBuffer(stem.material.outer)
           parentState == IF Len(stack) > 1 THEN stack[Len(stack) - 1].state
                          ELSE ZeroState
           placed == [Top.state EXCEPT
                         !.mesh = m,
                         !.segment.vertexStart = VertexCountOf(mesh, m),
                         !.segment.indexStart = IndexCountOf(mesh, m)]
           jointed == setInitialJointState(plant, placed, parentState)
           rotated == setInitialRotation(plant, jointed)
           state == [rotated EXCEPT !.texOffset = 0,
                                    !.prevIndex = VertexCountOf(mesh, m)]
       IN IF HasBuffer(mesh, m)
          THEN Finish("none", "collar", mesh,
                      SetTop([Top EXCEPT !.state = state, !.entry = state]))
          ELSE Finish("ub_buffer", "collar", mesh, stack)

WantsCollar(id) ==
    /\ plant.parent[id] # nullptr
    /\ plant.stems[id].swelling[1] >= SwellingOne
    /\ plant.stems[id].swelling[2] >= SwellingOne

\* Mesh::createBranchCollar returning 0 at once.
NoCollar ==
    /\ pc = "collar"
    /\ ~WantsCollar(Top.state.segment.stem)
    /\ stack' = SetTop([Top EXCEPT !.state.section = 0])
    /\ pc' = "sections"
    /\ UNCHANGED <<history, plant, extractions, original, walk, mesh, fault>>

\* Mesh::createBranchCollar: the first ring of the stem (ring A).
CollarRingA ==
    /\ pc = "collar"
    /\ WantsCollar(Top.state.segment.stem)
    /\ LET m == Top.state.mesh
           state == rotateSection([Top.state EXCEPT
                        !.section = 0, !.prevIndex = VertexCountOf(mesh, m)])
           r == addSection(plant, [mesh |-> mesh, state |-> state, fault |-> "none"])
       IN Finish(r.fault, "reserve", r.mesh,
                 SetTop([Top EXCEPT
                     !.state = r.state, !.collar = "attempt",
                     !.before = [vertexCount |-> VertexCountOf(mesh, m),
                                 indexCount |-> IndexCountOf(mesh, m)]]))

\* Mesh::createBranchCollar: the block of the collar's vertices.
CollarReserve ==
    /\ pc = "reserve"
    /\ LET m == Top.state.mesh
           stem == plant.stems[Top.state.segment.stem]
       IN /\ mesh' = reserveBranchCollarSpace(mesh, stem, m)
          /\ stack' = SetTop([Top EXCEPT !.collarStart = VertexCountOf(mesh, m)])
    /\ pc' = "ringB"
    /\ UNCHANGED <<history, plant, extractions, original, walk, fault>>

\* Mesh::createBranchCollar: the first ring after the collar (ring B).
CollarRingB ==
    /\ pc = "ringB"
    /\ LET m == Top.state.mesh
           stem == plant.stems[Top.state.segment.stem]
           state == rotateSection([Top.state EXCEPT
                        !.prevIndex = VertexCountOf(mesh, m),
                        !.texOffset = 0,
                        !.section = stem.path.divisions + 1])
           r == addSection(plant, [mesh |-> mesh, state |-> state, fault |-> "none"])
       IN Finish(r.fault, "connect", r.mesh, SetTop([Top EXCEPT !.state = r.state]))

\* Mesh::createBranchCollar from findStem on, and Mesh::addSections up to
\* its loop: the marker becomes state.section, and a fused collar is
\* stitched to the ring that follows.
ConnectCollar ==
    /\ pc = "connect"
    /\ \E miss \in {NoMiss} \cup Probes(plant.stems[Top.state.segment.stem]) :
        LET id == Top.state.segment.stem
            stem == plant.stems[id]
            m == Top.state.mesh
            parentSegment == findStem(mesh, plant.parent[id])
            r == connectCollar(plant, [mesh |-> mesh, state |-> Top.state,
                                       fault |-> "none"],
                               parentSegment, Top.collarStart, miss)
            section == r.marker
            stitched == IF section > 0 /\ section < stem.path.size
                        THEN addTriangleRing(r.mesh, Top.state.prevIndex,
                                             VertexCountOf(r.mesh, m),
                                             stem.sectionDivisions, m)
                        ELSE r.mesh
            outcome == IF section = 0 THEN "failed" ELSE "fused"
        IN /\ (history.passes > 0 /\ r.fault = "none") =>
                  outcome = history.collars[id]
           /\ Leave(r.fault, "sections", stitched,
                    SetTop([Top EXCEPT
                        !.state.section = section, !.collar = outcome]))
           /\ history' = IF r.fault = "none"
                         THEN [history EXCEPT !.collars[id] = outcome]
                         ELSE history

\* The body of the loop of Mesh::addSections with its increment: the ring
\* of state.section and the triangles that tie it to the ring before.
SectionStep(pl, c) ==
    LET stem == pl.stems[c.state.segment.stem]
        m == c.state.mesh
        turned == rotateSection(c.state)
        state == [turned EXCEPT !.prevIndex = VertexCountOf(c.mesh, m)]
        r == addSection(pl, [mesh |-> c.mesh, state |-> state, fault |-> "none"])
        ringed == IF state.section + 1 < stem.path.size
                  THEN addTriangleRing(r.mesh, state.prevIndex,
                                       VertexCountOf(r.mesh, m),
                                       stem.sectionDivisions, m)
                  ELSE r.mesh
    IN IF r.fault # "none" THEN [c EXCEPT !.fault = r.fault]
       ELSE [mesh |-> ringed, state |-> [r.state EXCEPT !.section = @ + 1],
             fault |-> "none"]

\* One turn of the loop of Mesh::addSections.
AddSection ==
    /\ pc = "sections"
    /\ Top.state.section < plant.stems[Top.state.segment.stem].path.size
    /\ LET r == SectionStep(plant, [mesh |-> mesh, state |-> Top.state,
                                    fault |-> "none"])
       IN Finish(r.fault, "sections", r.mesh, SetTop([Top EXCEPT !.state = r.state]))

\* The end of Mesh::addSections: the cap of a stem that has one.
EndSections ==
    /\ pc = "sections"
    /\ LET stem == plant.stems[Top.state.segment.stem]
           c == [mesh |-> mesh, state |-> Top.state, fault |-> "none"]
           r == IF stem.minRadius > 0 THEN capStem(plant, c) ELSE c
       IN /\ Top.state.section >= stem.path.size
          /\ Finish(r.fault, "record", r.mesh, stack)

\* RecordSegment taking the size of the buffer for the size of the segment.
RecordSegmentWhole ==
    /\ pc = "record"
    /\ LET m == Top.state.mesh
           segment == [Top.state.segment EXCEPT
               !.vertexCount = VertexCountOf(mesh, m),
               !.indexCount = IndexCountOf(mesh, m)]
       IN /\ mesh' = [mesh EXCEPT !.stemSegments[m + 1] =
                         Emplace(@, segment.stem, segment)]
          /\ stack' = SetTop([Top EXCEPT !.state.segment = segment, !.leaf = 0])
    /\ pc' = "leaves"
    /\ UNCHANGED <<history, plant, extractions, original, walk, fault>>

\* Mesh::addStem: the stem's segment is measured and recorded.
RecordSegment ==
    /\ pc = "record"
    /\ LET m == Top.state.mesh
           segment == [Top.state.segment EXCEPT
               !.vertexCount = VertexCountOf(mesh, m) - Top.state.segment.vertexStart,
               !.indexCount = IndexCountOf(mesh, m) - Top.state.segment.indexStart]
       IN /\ mesh' = [mesh EXCEPT !.stemSegments[m + 1] =
                         Emplace(@, segment.stem, segment)]
          /\ stack' = SetTop([Top EXCEPT !.state.segment = segment, !.leaf = 0])
    /\ pc' = "leaves"
    /\ UNCHANGED <<history, plant, extractions, original, walk, fault>>

\* One turn of the loop of Mesh::addLeaves.
AddLeaf ==
    /\ pc = "leaves"
    /\ LET id == Top.state.segment.stem
           r == addLeaf(plant, mesh, id, Top.leaf, Top.state)
       IN /\ Top.leaf < Len(plant.stems[id].leaves)
          /\ Finish(r.fault, "leaves", r.mesh, SetTop([Top EXCEPT !.leaf = @ + 1]))

\* Mesh::addStem: child = stem->getChild().
FirstChild ==
    /\ pc = "leaves"
    /\ Top.leaf >= Len(plant.stems[Top.state.segment.stem].leaves)
    /\ stack' = SetTop([Top EXCEPT !.child = plant.child[Top.state.segment.stem]])
    /\ pc' = "children"
    /\ UNCHANGED <<history, plant, extractions, original, walk, mesh, fault>>

\* Mesh::addStem: addStem(child, state) for a child with a valid location.
VisitChild ==
    /\ pc = "children"
    /\ Top.child # nullptr
    /\ hasValidLocation(plant.stems[Top.child])
    /\ stack' = Append(stack, NewFrame(Top.child))
    /\ pc' = "addStem"
    /\ UNCHANGED <<history, plant, extractions, original, walk, mesh, fault>>

\* Mesh::addStem: a child without a valid location is passed over.
SkipChild ==
    /\ pc = "children"
    /\ Top.child # nullptr
    /\ ~hasValidLocation(plant.stems[Top.child])
    /\ stack' = SetTop([Top EXCEPT !.child = plant.nextSibling[@]])
    /\ pc' = "children"
    /\ UNCHANGED <<history, plant, extractions, original, walk, mesh, fault>>

\* Mesh::addStem returns: the caller moves on to the next sibling.
Return ==
    /\ pc = "children"
    /\ Top.child = nullptr
    /\ IF Len(stack) = 1
       THEN stack' = <<>> /\ pc' = "finalize"
       ELSE /\ stack' = [SubSeq(stack, 1, Len(stack) - 1) EXCEPT
                            ![Len(stack) - 1].child = plant.nextSibling[@]]
            /\ pc' = "children"
    /\ UNCHANGED <<history, plant, extractions, original, walk, mesh, fault>>

\* Mesh::generate: updateSegments() after the walk.
UpdateSegments ==
    /\ pc = "finalize"
    /\ mesh' = updateSegments(mesh)
    /\ pc' = "done"
    /\ history' = Passed(updateSegments(mesh))
    /\ UNCHANGED <<plant, extractions, original, walk, stack, fault>>

\* generate() called again without initBuffer clearing what the pass
\* before left in the buffers.
GenerateAgainUncleared ==
    /\ pc = "done"
    /\ history.passes < MaxPasses
    /\ mesh' = mesh
    /\ IF plant.root # nullptr
       THEN stack' = <<NewFrame(plant.root)>> /\ pc' = "addStem"
            /\ UNCHANGED history
       ELSE stack' = <<>> /\ pc' = "done"
            /\ history' = Passed(mesh)
    /\ UNCHANGED <<plant, extractions, original, walk, fault>>

\* Mesh::generate called again on a mesh a finished pass has filled.
GenerateAgain ==
    /\ pc = "done"
    /\ history.passes < MaxPasses
    /\ mesh' = initBuffer(plant)
    /\ IF plant.root # nullptr
       THEN stack' = <<NewFrame(plant.root)>> /\ pc' = "addStem"
            /\ UNCHANGED history
       ELSE stack' = <<>> /\ pc' = "done"
            /\ history' = Passed(initBuffer(plant))
    /\ UNCHANGED <<plant, extractions, original, walk, fault>>

\* Plant::removeRoot between two calls of generate().
RemoveRoot ==
    /\ pc = "done"
    /\ plant.root # nullptr
    /\ plant' = Plant_removeRoot(plant)
    /\ history' = NoHistory
    /\ UNCHANGED <<extractions, original, walk, mesh, stack, pc, fault>>

\* No extractStems call is waiting for its reinsertStems.
NoOriginal == [stage |-> "none", plant |-> nullptr]

\* No isDescendantOf call is running.
NoWalk == [state |-> "idle", this |-> nullptr, stem |-> nullptr,
           descendant |-> nullptr]

Init ==
    /\ plant \in Plants
    /\ history = NoHistory
    /\ mesh = [vertices |-> <<>>, indices |-> <<>>,
               stemSegments |-> <<>>, leafSegments |-> <<>>]
    /\ stack = <<>>
    /\ pc = "idle"
    /\ fault = "none"
    /\ extractions = <<>>
    /\ original = NoOriginal
    /\ walk = NoWalk

Next ==
    \/ Generate
    \/ AddStemEnter
    \/ NoCollar
    \/ CollarRingA
    \/ CollarReserve
    \/ CollarRingB
    \/ ConnectCollar
    \/ AddSection
    \/ EndSections
    \/ RecordSegment
    \/ AddLeaf
    \/ FirstChild
    \/ VisitChild
    \/ SkipChild
    \/ Return
    \/ UpdateSegments

Spec == Init /\ [][Next]_vars

\* The plants generate() is called on more than once.
RegeneratedPlants == TabledPlants \cup LocatedPlants \cup SkinnedPlants

InitTwice ==
    /\ Init
    /\ plant \in RegeneratedPlants

NextTwice ==
    \/ Next
    \/ GenerateAgain
    \/ RemoveRoot

SpecTwice == InitTwice /\ [][NextTwice]_vars

(***************************************************************************)
(* The tree operations of plant.cpp and Stem::isDescendantOf, called by an *)
(* editor on a plant that is not being generated.  extractions is the      *)
(* caller's vector of Plant::Extraction, original remembers the plant an   *)
(* extractStems call started from until the next tree operation, and walk  *)
(* is the running isDescendantOf call.                                     *)
(***************************************************************************)
\* A tree operation is called between two isDescendantOf calls.  The editor
\* stops at an ill-linked tree: the traversals of deallocateStems and copy
\* would not end on it, or would free a stem twice.
Editing == pc = "idle" /\ walk.state # "loop" /\ WellLinked(plant)

\* A deallocated slot holds no stem: the links it held are not kept.
Settled(pl) ==
    LET Kept(links) == [s \in StemIds |-> IF s \in pl.pool THEN links[s] ELSE nullptr]
    IN [pl EXCEPT !.parent = Kept(@), !.child = Kept(@),
                  !.nextSibling = Kept(@), !.prevSibling = Kept(@)]

\* The tree operation leaves everything but the plant and the list alone.
Edited(plant2, extractions2, original2) ==
    /\ plant' = Settled(plant2)
    /\ extractions' = extractions2
    /\ original' = original2
    /\ walk' = NoWalk
    /\ UNCHANGED <<mesh, stack, pc, fault, history>>

\* Plant::addStem(parent) on a stem of the tree, or createRoot for nullptr.
AddStem ==
    /\ Editing
    /\ \E parent \in Reachable(plant) \cup {nullptr} :
          /\ parent = nullptr => plant.root # nullptr \/ plant.pool # StemIds
          /\ parent # nullptr => plant.pool # StemIds
          /\ Edited(Plant_addStem(plant, parent), extractions, NoOriginal)

\* Plant::insertStem(stem, parent) as Plant::move calls it.
InsertStem ==
    /\ Editing
    /\ plant.pool # StemIds
    /\ \E parent \in Reachable(plant) :
          Edited(Plant_move(plant, parent), extractions, NoOriginal)

\* Plant::deleteStem(stem) on a stem of the tree.
DeleteStem ==
    /\ Editing
    /\ \E stem \in Reachable(plant) :
          Edited(Plant_deleteStem(plant, stem), extractions, NoOriginal)

\* Plant::extractStem(stem): the extraction joins the caller's list.
ExtractStem ==
    /\ Editing
    /\ Len(extractions) < MaxExtractions
    /\ \E stem \in Reachable(plant) :
          Edited(Plant_deleteStem(plant, stem),
                 Append(extractions, Extraction(plant, stem)), NoOriginal)

\* Plant::extractStems(stem, stems): copy() appends the subtree to the list.
ExtractStems ==
    /\ Editing
    /\ \E stem \in Reachable(plant) :
          LET stems == extractions \o Plant_copy(plant, stem, MaxStems)
          IN /\ Len(stems) <= MaxExtractions
             /\ Edited(Plant_deleteStem(plant, stem), stems,
                       IF extractions = <<>>
                       THEN [stage |-> "extracted", plant |-> plant]
                       ELSE NoOriginal)

\* The parent the extraction names is a stem of the tree, as reinsertStem
\* assumes ("Assume that the parent stem is already inserted").
ParentInserted(extraction) ==
    extraction.parent = nullptr \/ extraction.parent \in Reachable(plant)

\* Plant::reinsertStem(extraction) on one extraction of the list.
ReinsertStem ==
    /\ Editing
    /\ \E i \in 1..Len(extractions) :
          /\ ParentInserted(extractions[i])
          /\ Edited(Plant_reinsertStem(plant, extractions[i]),
                    [j \in 1..(Len(extractions) - 1) |->
                        IF j < i THEN extractions[j] ELSE extractions[j + 1]],
                    NoOriginal)

\* Plant::reinsertStems(extractions) on the whole list.
ReinsertStems ==
    /\ Editing
    /\ extractions # <<>>
    /\ ParentInserted(Head(extractions))
    /\ Edited(Plant_reinsertStems(plant, extractions), <<>>,
              IF original.stage = "extracted"
              THEN [original EXCEPT !.stage = "reinserted"]
              ELSE NoOriginal)

\* Stem::isDescendantOf(stem) is called on a stem of the tree.
IsDescendantOf ==
    /\ Editing
    /\ \E this \in Reachable(plant), stem \in Reachable(plant) :
          walk' = [state |-> "loop", this |-> this, stem |-> stem,
                   descendant |-> this]
    /\ UNCHANGED <<plant, mesh, stack, pc, fault, history, extractions, original>>

\* One pass through the body of the while loop: return true, or move on.
IsDescendantOfLoop ==
    /\ walk.state = "loop"
    /\ walk.descendant # nullptr
    /\ IF walk.stem = plant.parent[walk.descendant]
       THEN walk' = [walk EXCEPT !.state = "true"]
       ELSE walk' = [walk EXCEPT !.descendant = plant.parent[walk.stem]]
    /\ UNCHANGED <<plant, mesh, stack, pc, fault, history, extractions, original>>

\* The loop condition fails: return false.
IsDescendantOfExit ==
    /\ walk.state = "loop"
    /\ walk.descendant = nullptr
    /\ walk' = [walk EXCEPT !.state = "false"]
    /\ UNCHANGED <<plant, mesh, stack, pc, fault, history, extractions, original>>

\* The editor starts from a plant without stems.
InitPlant ==
    /\ Init
    /\ plant = EmptyPlant(MaterialTable({0}), LeafMeshes)

NextPlant ==
    \/ AddStem
    \/ InsertStem
    \/ DeleteStem
    \/ ExtractStem
    \/ ExtractStems
    \/ ReinsertStem
    \/ ReinsertStems
    \/ IsDescendantOf
    \/ IsDescendantOfLoop
    \/ IsDescendantOfExit

SpecPlant == InitPlant /\ [][NextPlant]_vars



(***************************************************************************)
(* Properties.                                                             *)
(***************************************************************************)
Buffers == 1..Len(mesh.vertices)

\* Two half-open ranges have no element in common.
RangesDisjoint(start1, count1, start2, count2) ==
    count1 = 0 \/ count2 = 0 \/ start1 + count1 <= start2 \/ start2 + count2 <= start1

SegmentsDisjoint(a, b) ==
    /\ RangesDisjoint(a.vertexStart, a.vertexCount, b.vertexStart, b.vertexCount)
    /\ RangesDisjoint(a.indexStart, a.indexCount, b.indexStart, b.indexCount)

\* C1: after generate(), within every material buffer the vertex ranges of
\* the recorded segments (stem and leaf segments together) are pairwise
\* disjoint, and so are their index ranges.
C1_SegmentsDisjoint ==
    pc = "done" =>
        \A m \in Buffers :
            LET stems == mesh.stemSegments[m]
                leaves == mesh.leafSegments[m]
            IN /\ \A a, b \in DOMAIN stems :
                      a # b => SegmentsDisjoint(stems[a], stems[b])
               /\ \A a, b \in DOMAIN leaves :
                      a # b => SegmentsDisjoint(leaves[a], leaves[b])
               /\ \A a \in DOMAIN stems : \A b \in DOMAIN leaves :
                      SegmentsDisjoint(stems[a], leaves[b])

\* A finished pass with a buffer that holds the segments of three stems and
\* of a leaf, none of them empty.
C1_Witness ==
    /\ pc = "done"
    /\ \E m \in Buffers :
        /\ Cardinality(DOMAIN mesh.stemSegments[m]) >= 3
        /\ DOMAIN mesh.leafSegments[m] # {}
        /\ \A a \in DOMAIN mesh.stemSegments[m] :
               mesh.stemSegments[m][a].vertexCount > 0
               /\ mesh.stemSegments[m][a].indexCount > 0
        /\ \A b \in DOMAIN mesh.leafSegments[m] :
               mesh.leafSegments[m][b].vertexCount > 0

RECURSIVE CountBefore(_, _)
\* The number of elements in the buffers before buffer m (entry m).
CountBefore(buffers, m) ==
    IF m <= 1 THEN 0 ELSE Len(buffers[m - 1]) + CountBefore(buffers, m - 1)

\* C2: updateSegments() leaves the vertices alone and adds to every index
\* of buffer m the number of vertices in the buffers before m (nothing for
\* buffer 0), so that an index that named a vertex of its buffer names the
\* same vertex in getVertices().
C2_IndexOffsets ==
    [][pc = "finalize" =>
        /\ mesh'.vertices = mesh.vertices
        /\ \A m \in Buffers :
            /\ Len(mesh'.indices[m]) = Len(mesh.indices[m])
            /\ m = 1 => mesh'.indices[m] = mesh.indices[m]
            /\ \A k \in 1..Len(mesh.indices[m]) :
                LET local == mesh.indices[m][k]
                    merged == mesh'.indices[m][k]
                IN /\ merged = local + CountBefore(mesh.vertices, m)
                   /\ local < Len(mesh.vertices[m]) =>
                          getVertices(mesh')[merged + 1] = mesh.vertices[m][local + 1]
    ]_vars

\* A merged mesh whose first three buffers all hold vertices and indices.
C2_Witness ==
    /\ pc = "done"
    /\ Len(mesh.indices) >= 3
    /\ \A m \in 1..3 : mesh.indices[m] # <<>> /\ mesh.vertices[m] # <<>>

\* The part of a merged array a segment addresses.
Addressed(array, start, count) == SubSeq(array, start + 1, start + count)

SegmentMoved(before, after, m) ==
    /\ after.vertexStart =
           before.vertexStart
           + (IF m >= 2 THEN CountBefore(mesh.vertices, m) ELSE 0)
    /\ after.indexStart =
           before.indexStart
           + (IF m >= 2 THEN CountBefore(mesh.indices, m) ELSE 0)
    /\ after.vertexCount = before.vertexCount
    /\ after.indexCount = before.indexCount
    /\ after.stem = before.stem /\ after.leafIndex = before.leafIndex
    /\ Addressed(getVertices(mesh'), after.vertexStart, after.vertexCount)
           = Addressed(mesh.vertices[m], before.vertexStart, before.vertexCount)
    /\ Addressed(getIndices(mesh'), after.indexStart, after.indexCount)
           = Addressed(mesh'.indices[m], before.indexStart, before.indexCount)

\* C3: updateSegments() moves every stem and leaf segment of buffer m >= 1
\* by the numbers of vertices and of indices in the buffers before m and
\* keeps its counts, so that the segment addresses in the merged arrays what
\* it addressed in its buffer.
C3_SegmentOffsets ==
    [][pc = "finalize" =>
        \A m \in Buffers :
            /\ DOMAIN mesh'.stemSegments[m] = DOMAIN mesh.stemSegments[m]
            /\ DOMAIN mesh'.leafSegments[m] = DOMAIN mesh.leafSegments[m]
            /\ \A key \in DOMAIN mesh.stemSegments[m] :
                   SegmentMoved(mesh.stemSegments[m][key],
                                mesh'.stemSegments[m][key], m)
            /\ \A key \in DOMAIN mesh.leafSegments[m] :
                   SegmentMoved(mesh.leafSegments[m][key],
                                mesh'.leafSegments[m][key], m)
    ]_vars

\* A merged mesh with a stem segment in its third buffer and a leaf segment
\* in its second, behind buffers that hold vertices and indices.
C3_Witness ==
    /\ pc = "done"
    /\ Len(mesh.indices) >= 3
    /\ mesh.indices[1] # <<>>
    /\ \E key \in DOMAIN mesh.leafSegments[2] :
           mesh.leafSegments[2][key].indexStart > 0
    /\ \E key \in DOMAIN mesh.stemSegments[3] :
           mesh.stemSegments[3][key].indexStart
               > Len(mesh.indices[1]) + Len(mesh.indices[2]) - 1
           /\ mesh.stemSegments[3][key].indexCount > 0


\* Both weights of a pair lie in [0, 1] and add up to 1.
Normalised(weights) ==
    /\ weights[3] > 0
    /\ weights[1] + weights[2] = weights[3]
    /\ weights[1] >= 0 /\ weights[1] <= weights[3]
    /\ weights[2] >= 0 /\ weights[2] <= weights[3]

\* C4: after generate(), every vertex (of a ring, a collar, a cap or a
\* leaf) has weights in [0, 1] that add up to 1.
C4_WeightsNormalised ==
    pc = "done" =>
        \A m \in Buffers : \A k \in 1..Len(mesh.vertices[m]) :
            Normalised(mesh.vertices[m][k].weights)


\* The segment of the parent of the stem whose collar is being made.
ParentSegment == findStem(mesh, plant.parent[Top.state.segment.stem])

\* C5: where connectCollar is called, whichever probe finds no intersection
\* (and, for a parent without triangles, even when none is named), the call
\* returns marker 0 and the child's buffer has the vertex and index counts
\* it had before ring A was added.
C5_CollarRollback ==
    pc = "connect" =>
        LET stem == plant.stems[Top.state.segment.stem]
            m == Top.state.mesh
            misses == Probes(stem)
                      \cup (IF ParentSegment.indexCount = 0 THEN {NoMiss} ELSE {})
        IN \A miss \in misses :
            LET r == connectCollar(plant, [mesh |-> mesh, state |-> Top.state,
                                           fault |-> "none"],
                                   ParentSegment, Top.collarStart, miss)
            IN r.fault = "none" =>
                /\ r.marker = 0
                /\ VertexCountOf(r.mesh, m) = Top.before.vertexCount
                /\ IndexCountOf(r.mesh, m) = Top.before.indexCount
                /\ r.mesh.vertices[m + 1]
                       = SubSeq(mesh.vertices[m + 1], 1, Top.before.vertexCount)

\* A collar has just failed on a parent without triangles: the stem is at
\* section 0 and its buffer, which holds the parent, is as long as before.
C5_Witness ==
    /\ pc = "sections"
    /\ Top.collar = "failed"
    /\ Top.state.section = 0
    /\ ParentSegment.indexCount = 0
    /\ Top.before.vertexCount > 0
    /\ VertexCountOf(mesh, Top.state.mesh) = Top.before.vertexCount
    /\ IndexCountOf(mesh, Top.state.mesh) = Top.before.indexCount

RECURSIVE PlainSections(_, _)
\* The loop of Mesh::addSections run from c to the end of the path.
PlainSections(pl, c) ==
    IF c.fault # "none"
       \/ c.state.section >= pl.stems[c.state.segment.stem].path.size
    THEN c
    ELSE PlainSections(pl, SectionStep(pl, c))

\* C6: when the rings of a stem whose collar failed are complete, the mesh
\* and the joint and texture state are those the loop of addSections gives
\* from the State createBranchCollar was entered with, as for a stem
\* without a collar.
C6_FallbackIsPlain ==
    (/\ pc = "sections"
     /\ Top.collar = "failed"
     /\ Top.state.section >= plant.stems[Top.state.segment.stem].path.size)
    => LET m == Top.state.mesh
           start == [mesh EXCEPT
                        !.vertices[m + 1] = SubSeq(@, 1, Top.before.vertexCount),
                        !.indices[m + 1] = SubSeq(@, 1, Top.before.indexCount)]
           plain == PlainSections(plant, [mesh |-> start,
                                          state |-> [Top.entry EXCEPT !.section = 0],
                                          fault |-> "none"])
       IN /\ plain.fault = "none"
          /\ mesh = plain.mesh
          /\ Top.state.jointIndex = plain.state.jointIndex
          /\ Top.state.jointOffset = plain.state.jointOffset
          /\ Top.state.texOffset = plain.state.texOffset


\* The stem whose rings are complete and the buffer its cap goes to.
CappedStem == plant.stems[Top.state.segment.stem]
CapBuffer == selectBuffer(CappedStem.material.inner)

\* The triangles the step added to the cap's buffer.
CapTrianglesAdded ==
    (IndexCountOf(mesh', CapBuffer) - IndexCountOf(mesh, CapBuffer)) \div 3

CapStep == pc = "sections" /\ pc' = "record" /\ CappedStem.minRadius > 0

\* C7 as stated: capStem emits d - 1 fan triangles, one more when d is odd,
\* and none when d < 2.
C7_CapParityAsStated ==
    [][CapStep =>
        LET d == CappedStem.sectionDivisions
        IN CapTrianglesAdded =
               IF d < 2 THEN 0 ELSE (d - 1) + (IF d % 2 # 0 THEN 1 ELSE 0)
    ]_vars

\* C7: capStem emits d - 2 triangles when d >= 2 (for odd d the last of them
\* is the extra triangle that follows the fan of d - 3), one triangle when
\* d = 1 and none when d = 0.
C7_CapParity ==
    [][CapStep =>
        LET d == CappedStem.sectionDivisions
            added == Addressed(mesh'.indices[CapBuffer + 1],
                               IndexCountOf(mesh, CapBuffer),
                               3 * CapTrianglesAdded)
        IN /\ CapTrianglesAdded = IF d >= 2 THEN d - 2 ELSE d
           /\ IndexCountOf(mesh', CapBuffer)
                  = IndexCountOf(mesh, CapBuffer) + 3 * CapTrianglesAdded
           /\ d % 2 # 0 =>
                  /\ added[Len(added)] = added[Len(added) - 2] + 1
                  /\ added[Len(added) - 1] = added[Len(added) - 2] + 2
    ]_vars

\* The cap of a stem with five divisions is in place: three triangles.
C7_Witness ==
    /\ pc = "record"
    /\ CappedStem.sectionDivisions = 5
    /\ CappedStem.minRadius > 0
    /\ CappedStem.path.size = 1
    /\ IndexCountOf(mesh, CapBuffer) = 9

\* C8: for the root alone with three samples and eight divisions, the
\* finished mesh has 27 ring vertices and 9 cap vertices, two rings of 16
\* triangles over the ring vertices and 6 cap triangles over the cap's, all
\* in buffer 0 and in one stem segment that spans it, no leaf segment, and
\* every vertex on joint 0 with weight 1.
C8_SingleStem ==
    (plant = SingleStemPlant /\ pc = "done") =>
        /\ Len(mesh.vertices[1]) = 36
        /\ Len(mesh.indices[1]) = 3 * (2 * 16 + 6)
        /\ \A k \in 1..96 : mesh.indices[1][k] < 27
        /\ \A k \in 1..48 : mesh.indices[1][k] < 18
        /\ \A k \in 49..96 : mesh.indices[1][k] >= 9
        /\ \A k \in 97..114 : mesh.indices[1][k] >= 27 /\ mesh.indices[1][k] < 36
        /\ \A m \in 2..Len(mesh.vertices) :
               /\ mesh.vertices[m] = <<>> /\ mesh.indices[m] = <<>>
               /\ DOMAIN mesh.stemSegments[m] = {}
               /\ DOMAIN mesh.leafSegments[m] = {}
        /\ DOMAIN mesh.stemSegments[1] = {plant.root}
        /\ DOMAIN mesh.leafSegments[1] = {}
        /\ mesh.stemSegments[1][plant.root] =
               [stem |-> plant.root, leafIndex |-> 0,
                vertexStart |-> 0, vertexCount |-> 36,
                indexStart |-> 0, indexCount |-> 114]
        /\ \A k \in 1..Len(mesh.vertices[1]) :
               /\ mesh.vertices[1][k].indices[1] = 0
               /\ mesh.vertices[1][k].weights = <<1, 0, 1>>

\* The pass over the root alone has finished with a mesh.
C8_Witness ==
    /\ plant = SingleStemPlant
    /\ pc = "done"
    /\ mesh.vertices[1] # <<>>
    /\ mesh.indices[1] # <<>>

\* A stem is left out when a coordinate of its location, or of the location
\* of a stem above it, is not finite.
NonFinite(stem) == \E i \in 1..3 : plant.stems[stem].location[i] # "finite"

RECURSIVE LeftOut(_, _)
LeftOut(stem, fuel) ==
    /\ stem # nullptr
    /\ fuel > 0
    /\ (NonFinite(stem) \/ LeftOut(plant.parent[stem], fuel - 1))

\* The stem has a segment, or a vertex or a leaf segment of its own.
Emitted(stem) ==
    \E m \in Buffers :
        \/ stem \in DOMAIN mesh.stemSegments[m]
        \/ \E leaf \in DOMAIN mesh.leafSegments[m] : leaf[1] = stem
        \/ \E k \in 1..Len(mesh.vertices[m]) :
               mesh.vertices[m][k].position.stem = stem

\* C9 as stated: after generate(), a stem with a non-finite coordinate in
\* its location, root or child, and every stem below it, has no vertex and
\* no segment, and every other stem has its segment.
C9_NonFiniteLeftOut ==
    pc = "done" =>
        \A stem \in plant.pool :
            IF LeftOut(stem, MaxStems + 1) THEN ~Emitted(stem)
            ELSE \E m \in Buffers : stem \in DOMAIN mesh.stemSegments[m]

\* C10 as stated: no pass ends in the exception of a failed lookup or in an
\* access to a buffer that does not exist.
C10_MissingIdsDefault == fault \notin {"out_of_range", "ub_buffer"}


\* C11 as stated: whenever a step is about to use the buffer selectBuffer
\* returns (for the stem's outer material on entry, for its inner material
\* at the cap, for a leaf's material), that buffer exists.
C11_SelectedBufferExists ==
    /\ pc = "addStem" =>
           HasBuffer(mesh, selectBuffer(
               plant.stems[Top.state.segment.stem].material.outer))
    /\ (/\ pc = "sections"
        /\ Top.state.section >= plant.stems[Top.state.segment.stem].path.size
        /\ plant.stems[Top.state.segment.stem].minRadius > 0)
       => HasBuffer(mesh, selectBuffer(
              plant.stems[Top.state.segment.stem].material.inner))
    /\ (/\ pc = "leaves"
        /\ Top.leaf < Len(plant.stems[Top.state.segment.stem].leaves))
       => HasBuffer(mesh, selectBuffer(
              plant.stems[Top.state.segment.stem].leaves[Top.leaf + 1].material))

LeafKeys == StemIds \X (0..1)

Recorded(segments, key) == {m \in 1..Len(segments) : key \in DOMAIN segments[m]}

\* All four numbers of a segment are zero.
EmptySegment(segment) ==
    /\ segment.vertexStart = 0 /\ segment.vertexCount = 0
    /\ segment.indexStart = 0 /\ segment.indexCount = 0

\* C12: at any time (before, during and after a pass, and after one that
\* failed) findStem and findLeaf return the recorded segment of a key that
\* has one, which is recorded in one buffer only, and a segment of zeros for
\* any other key.
C12_FindSegment ==
    /\ \A stem \in Pointers :
        /\ Recorded(mesh.stemSegments, stem) = {}
               => EmptySegment(findStem(mesh, stem))
        /\ \A m \in Recorded(mesh.stemSegments, stem) :
               findStem(mesh, stem) = mesh.stemSegments[m][stem]
    /\ \A leaf \in LeafKeys :
        /\ Recorded(mesh.leafSegments, leaf) = {}
               => EmptySegment(findLeaf(mesh, leaf))
        /\ \A m \in Recorded(mesh.leafSegments, leaf) :
               findLeaf(mesh, leaf) = mesh.leafSegments[m][leaf]

\* A finished pass with a stem and a leaf recorded behind the first buffer
\* and a stem of the pool's range that has no record.
C12_Witness ==
    /\ pc = "done"
    /\ \E stem \in StemIds : Recorded(mesh.stemSegments, stem) = {}
    /\ \E stem \in StemIds : \E m \in Recorded(mesh.stemSegments, stem) :
           m >= 2 /\ mesh.stemSegments[m][stem].vertexCount > 0
    /\ \E leaf \in LeafKeys : \E m \in Recorded(mesh.leafSegments, leaf) :
           m >= 2 /\ mesh.leafSegments[m][leaf].vertexCount > 0

\* C13: in a step of the walk no buffer loses vertices or indices, except
\* the buffer of a stem in the step in which its collar fails, which is cut
\* back to the lengths it had before the attempt.
C13_AppendOnly ==
    [][pc \notin {"idle", "done"} =>
        \A m \in Buffers :
            \/ /\ Len(mesh'.vertices[m]) >= Len(mesh.vertices[m])
               /\ Len(mesh'.indices[m]) >= Len(mesh.indices[m])
            \/ /\ pc = "connect" /\ pc' = "sections"
               /\ Top'.collar = "failed"
               /\ m = Top.state.mesh + 1
               /\ Len(mesh'.vertices[m]) = Top.before.vertexCount
               /\ Len(mesh'.indices[m]) = Top.before.indexCount
    ]_vars

\* A stem whose collar failed has been extruded again over the cut.
C13_Witness ==
    /\ pc = "record"
    /\ Top.collar = "failed"
    /\ Top.before.vertexCount > 0
    /\ VertexCountOf(mesh, Top.state.mesh) > Top.before.vertexCount
    /\ IndexCountOf(mesh, Top.state.mesh) > Top.before.indexCount


C15_Regenerate ==
    /\ (pc = "done" /\ history.passes >= 2) =>
           /\ getMeshCount(mesh) = getMeshCount(history.result)
           /\ \A m \in Buffers :
                  /\ Len(mesh.vertices[m]) = Len(history.result.vertices[m])
                  /\ mesh.indices[m] = history.result.indices[m]
                  /\ mesh.stemSegments[m] = history.result.stemSegments[m]
                  /\ mesh.leafSegments[m] = history.result.leafSegments[m]
    /\ (pc = "done" /\ history.passes >= 1 /\ plant.root = nullptr) =>
           \A m \in Buffers :
               /\ mesh.vertices[m] = <<>> /\ mesh.indices[m] = <<>>
               /\ mesh.stemSegments[m] = <<>> /\ mesh.leafSegments[m] = <<>>

\* A second pass has finished with geometry in a buffer after the first,
\* whose indices and segments carry an offset.
C15_Witness ==
    /\ pc = "done" /\ history.passes >= 2 /\ plant.root # nullptr
    /\ \E m \in Buffers :
           /\ m > 1
           /\ mesh.indices[m] # <<>>
           /\ Len(mesh.vertices[1]) > 0
           /\ DOMAIN mesh.stemSegments[m] \cup DOMAIN mesh.leafSegments[m] # {}


\* The joint whose region holds sample s of a stem with joints: the last
\* joint at or before s, or the first joint when s lies before them all.
RegionJoint(stem, s) ==
    LET behind == {k \in 1..Len(stem.joints) : stem.joints[k].pathIndex <= s}
    IN IF behind = {} THEN stem.joints[1]
       ELSE stem.joints[CHOOSE k \in behind : \A j \in behind : j <= k]

\* C16 as stated: after generate(), every ring vertex of a stem with joints
\* has as first joint index the id of the joint whose region holds the
\* ring's sample.
C16_RingJointIsRegion ==
    pc = "done" =>
        \A m \in Buffers : \A k \in 1..Len(mesh.vertices[m]) :
            LET vertex == mesh.vertices[m][k]
                stem == plant.stems[vertex.position.stem]
            IN (vertex.position.kind = "section" /\ Stem_hasJoints(stem)) =>
                   vertex.indices[1] = RegionJoint(stem, vertex.position.section).id


\* The second weight of a pair is not zero (a non-finite weight is not).
SecondWeighs(weights) == weights[3] = 0 \/ weights[2] # 0

\* C17 as stated: every vertex whose second weight is not zero has two
\* different joint ids, and no vertex gets its second joint id from outside
\* the joints of its stem.
C17_DistinctJoints ==
    /\ fault # "ub_joint"
    /\ \A m \in Buffers : \A k \in 1..Len(mesh.vertices[m]) :
           LET vertex == mesh.vertices[m][k]
           IN SecondWeighs(vertex.weights) =>
                  vertex.indices[1] # vertex.indices[2]


\* The ring vertices in the mesh: every vertex added by addSection.
RingVertices ==
    {vertex \in UNION {{mesh.vertices[m][k] : k \in 1..Len(mesh.vertices[m])} :
                          m \in Buffers} :
        vertex.position.kind = "section"}

\* C18: at every moment, a ring of a stem with joints that lies on the
\* stem's first or last sample has weights (1, 0).
C18_BoundaryRingsPinned ==
    \A vertex \in RingVertices :
        LET stem == plant.stems[vertex.position.stem]
        IN (/\ Stem_hasJoints(stem)
            /\ vertex.position.section \in {0, stem.path.size - 1}) =>
               vertex.weights = <<1, 0, 1>>

\* A finished pass holds a ring on the last sample of a stem whose second
\* or later joint sits on that sample, where an unpinned ring would blend.
C18_Witness ==
    /\ pc = "done"
    /\ \E vertex \in RingVertices :
           LET stem == plant.stems[vertex.position.stem]
           IN /\ Len(stem.joints) >= 2
              /\ vertex.position.section = stem.path.size - 1
              /\ vertex.position.section > 0
              /\ Last(stem.joints).pathIndex = vertex.position.section
              /\ vertex.indices[1] = Last(stem.joints).id
              /\ vertex.weights = <<1, 0, 1>>


\* A step of the walk that adds a ring to the buffer of the running stem:
\* ring A, ring B, or a ring of the loop of addSections.
RingStep ==
    \/ pc = "collar" /\ pc' = "reserve"
    \/ pc = "ringB" /\ pc' = "connect"
    \/ pc = "sections" /\ pc' = "sections"

\* The ring a RingStep has added, the State it left, and the distance from
\* the State's joint to the next joint (to the end of the path for the last
\* joint).
AddedRing ==
    LET buffer == mesh'.vertices[Top.state.mesh + 1]
    IN buffer[Len(buffer)]

JointSpan(stem, jointIndex) ==
    LET start == stem.joints[jointIndex + 1].pathIndex
    IN IF jointIndex + 1 >= Len(stem.joints)
       THEN Path_getDistance(stem.path, start, stem.path.size - 1)
       ELSE Path_getDistance(stem.path, start,
                             stem.joints[jointIndex + 2].pathIndex)

\* The added ring is not on the first or last sample of a stem with joints,
\* and the distance walked from the current joint is less than half the
\* distance to the neighbouring joint.
BelowMidpoint ==
    LET stem == plant.stems[Top.state.segment.stem]
        state == Top'.state
    IN /\ Stem_hasJoints(stem)
       /\ AddedRing.position.section \notin {0, stem.path.size - 1}
       /\ 2 * state.jointOffset < JointSpan(stem, state.jointIndex)

\* C19 as stated: a ring that is added below the midpoint is wholly on its
\* current joint, whichever joint that is.
C19_WhollyOnCurrentJoint ==
    [][(RingStep /\ BelowMidpoint) => AddedRing.weights = <<1, 0, 1>>]_vars

\* C19, amended: a ring that is added below the midpoint is wholly on its
\* current joint when that is the first joint of the stem; under a later
\* joint it is shared with the previous joint, half and half on the joint's
\* own sample and (1/2 + ratio, 1/2 - ratio) after it; it is never shared
\* with the next joint.
C19_BlendBelowMidpoint ==
    [][(RingStep /\ BelowMidpoint) =>
        LET stem == plant.stems[Top.state.segment.stem]
            state == Top'.state
            joint == stem.joints[state.jointIndex + 1]
            span == JointSpan(stem, state.jointIndex)
        IN /\ AddedRing.indices[1] = joint.id
           /\ IF state.jointIndex = 0
              THEN AddedRing.weights = <<1, 0, 1>>
              ELSE /\ AddedRing.indices[2] = stem.joints[state.jointIndex].id
                   /\ AddedRing.weights =
                          IF AddedRing.position.section = joint.pathIndex
                          THEN <<1, 1, 2>>
                          ELSE Weights(span + 2 * state.jointOffset,
                                       span - 2 * state.jointOffset, 2 * span)
                   /\ AddedRing.weights[2] > 0]_vars

\* A finished pass holds a ring, not on the first or last sample and not on
\* a joint's own sample, that is shared unevenly between a later joint of
\* its stem and the joint before it.
C19_Witness ==
    /\ pc = "done"
    /\ \E vertex \in RingVertices :
           LET stem == plant.stems[vertex.position.stem]
           IN /\ vertex.position.section \notin {0, stem.path.size - 1}
              /\ \E k \in 2..Len(stem.joints) :
                     /\ vertex.indices = <<stem.joints[k].id, stem.joints[k - 1].id>>
                     /\ vertex.position.section > stem.joints[k].pathIndex
                     /\ vertex.weights[2] > 0
                     /\ vertex.weights[1] > vertex.weights[2]


RECURSIVE InheritedJoint(_, _)
\* The joint id a stem without joints is to carry: the id of the joint
\* whose region holds the sample at which the chain of jointless stems
\* leaves the nearest ancestor with joints, or 0 without such an ancestor.
InheritedJoint(pl, id) ==
    LET parent == pl.parent[id]
    IN IF parent = nullptr THEN 0
       ELSE IF Stem_hasJoints(pl.stems[parent])
       THEN RegionJoint(pl.stems[parent],
                        Path_getIndex(pl.stems[parent].path,
                                      pl.stems[id].distance)).id
       ELSE InheritedJoint(pl, parent)

\* The vertices of rings, caps and leaves in the mesh.
SkinnedVertices ==
    {vertex \in UNION {{mesh.vertices[m][k] : k \in 1..Len(mesh.vertices[m])} :
                          m \in Buffers} :
        vertex.position.kind \in {"section", "leaf"}}

\* C20: at every moment, every ring and leaf vertex of a stem without
\* joints is wholly on one joint, the one inherited from the nearest
\* ancestor with joints (0 without such an ancestor).
C20_InheritedJoint ==
    \A vertex \in SkinnedVertices :
        ~Stem_hasJoints(plant.stems[vertex.position.stem]) =>
            /\ vertex.indices[1] = InheritedJoint(plant, vertex.position.stem)
            /\ vertex.weights = <<1, 0, 1>>

\* A finished pass holds a ring and a leaf of a stem without joints whose
\* parent has none either and whose grandparent has joints, the inherited
\* joint not being the last joint of the grandparent.
C20_Witness ==
    /\ pc = "done"
    /\ \E id \in plant.pool :
           LET parent == plant.parent[id]
               grand == IF parent = nullptr THEN nullptr ELSE plant.parent[parent]
           IN /\ grand # nullptr
              /\ ~Stem_hasJoints(plant.stems[id])
              /\ ~Stem_hasJoints(plant.stems[parent])
              /\ Stem_hasJoints(plant.stems[grand])
              /\ InheritedJoint(plant, id) # Last(plant.stems[grand].joints).id
              /\ \E ring \in SkinnedVertices, leaf \in SkinnedVertices :
                     /\ ring.position.kind = "section" /\ ring.position.stem = id
                     /\ leaf.position.kind = "leaf" /\ leaf.position.stem = id
                     /\ ring.indices[1] = InheritedJoint(plant, id)
                     /\ leaf.indices[1] = InheritedJoint(plant, id)


\* The position along the path at which the leaf of a leaf vertex is
\* attached.
LeafPosition(vertex) ==
    plant.stems[vertex.position.stem].leaves[vertex.position.section + 1].position

\* C21 as stated: a leaf vertex whose leaf is attached on sample s of its
\* stem has the first joint id and the weights of every ring vertex the
\* stem has on sample s.
C21_LeafSkinnedAsRing ==
    \A leaf \in SkinnedVertices : \A ring \in SkinnedVertices :
        (/\ leaf.position.kind = "leaf" /\ ring.position.kind = "section"
         /\ ring.position.stem = leaf.position.stem
         /\ ring.position.section = LeafPosition(leaf)) =>
            /\ leaf.indices[1] = ring.indices[1]
            /\ leaf.weights = ring.weights


\* C22: in a collar attempt the block reserved after ring A has
\* (sectionDivisions+1) * collarDivisions slots, not yet filled when ring B
\* is made; ring B starts at vertexStart + (sectionDivisions+1) *
\* (collarDivisions+1); the spline samples of connectCollar are written one
\* to each reserved slot and inside the stem's range; and after a fused
\* collar ring A, the filled block and ring B stay where they were.
C22_CollarLayout ==
    stack # <<>> =>
        LET stem == plant.stems[Top.state.segment.stem]
            ring == stem.sectionDivisions + 1
            start == Top.state.segment.vertexStart
            buffer == mesh.vertices[Top.state.mesh + 1]
            reserved == (start + ring)..(start + ring * (stem.collarDivisions + 1) - 1)
            ringB == start + ring * (stem.collarDivisions + 1)
            samples == (0..stem.sectionDivisions) \X (0..(stem.collarDivisions - 1))
            RingBInPlace ==
                \A i \in 0..stem.sectionDivisions :
                    /\ buffer[ringB + i + 1].position.kind = "section"
                    /\ buffer[ringB + i + 1].position.stem = Top.state.segment.stem
                    /\ buffer[ringB + i + 1].position.section = stem.path.divisions + 1
                    /\ buffer[ringB + i + 1].position.i = i
        IN /\ pc = "ringB" =>
                  /\ Top.collarStart = start + ring
                  /\ Len(buffer) = ringB
                  /\ \A k \in reserved : buffer[k + 1] = ZeroVertex
           /\ pc = "connect" =>
                  /\ Len(buffer) = ringB + ring
                  /\ RingBInPlace
                  /\ \A k \in reserved :
                         Cardinality({w \in samples :
                             CollarOffset(Top.collarStart, stem.sectionDivisions,
                                          w[1], w[2]) = k}) = 1
                  /\ \A w \in samples :
                         CollarOffset(Top.collarStart, stem.sectionDivisions,
                                      w[1], w[2]) \in reserved
           /\ (Top.collar = "fused" /\ pc \in {"sections", "record", "leaves", "children"}) =>
                  /\ Len(buffer) >= ringB + ring
                  /\ RingBInPlace
                  /\ \A i \in 0..stem.sectionDivisions :
                         buffer[start + i + 1].position.kind = "surface"
                  /\ \A k \in reserved :
                         /\ buffer[k + 1].position.kind = "spline"
                         /\ buffer[k + 1].position.stem = Top.state.segment.stem
                         /\ CollarOffset(Top.collarStart, stem.sectionDivisions,
                                         buffer[k + 1].position.i,
                                         buffer[k + 1].position.section) = k

\* A collar of two divisions has fused on a stem whose rings have three
\* vertices, behind a parent that already fills the buffer.
C22_Witness ==
    /\ pc = "record" /\ stack # <<>> /\ Top.collar = "fused"
    /\ plant.stems[Top.state.segment.stem].collarDivisions = 2
    /\ plant.stems[Top.state.segment.stem].sectionDivisions = 2
    /\ Top.state.segment.vertexStart > 0


\* The first vertices (i = 0) of the rings of the tube that the running
\* stem has in its buffer from its vertexStart on, on sample s.
TubeRings(s) ==
    LET buffer == mesh.vertices[Top.state.mesh + 1]
    IN {k \in (Top.state.segment.vertexStart + 1)..Len(buffer) :
           /\ buffer[k].position.kind \in {"section", "surface"}
           /\ buffer[k].uv[1] = "tube"
           /\ buffer[k].position.stem = Top.state.segment.stem
           /\ buffer[k].position.i = 0
           /\ buffer[k].position.section = s}

\* C23: after a fused collar on a path of p divisions the loop of
\* addSections goes on at sample p+2; when the stem's rings are done it has
\* one ring on sample 0, one on sample p+1, one on every sample from p+2
\* on and none on samples 1..p; and the triangles that follow those of the
\* collar tie ring B to the ring of sample p+2 when the path has one.
C23_CollarResume ==
    (stack # <<>> /\ Top.collar = "fused") =>
        LET stem == plant.stems[Top.state.segment.stem]
            p == stem.path.divisions
            ring == stem.sectionDivisions + 1
            ringB == Top.state.segment.vertexStart
                         + ring * (stem.collarDivisions + 1)
            stitch == TriangleRing(ringB, ringB + ring, stem.sectionDivisions)
            from == Top.state.segment.indexStart
                        + (stem.collarDivisions + 1) * Len(stitch)
            indices == mesh.indices[Top.state.mesh + 1]
        IN /\ pc = "sections" =>
                  /\ Top.state.section >= p + 2
                  /\ \A s \in 0..(stem.path.size - 1) :
                         Cardinality(TubeRings(s)) =
                             IF s = 0 \/ s = p + 1
                                \/ (s >= p + 2 /\ s < Top.state.section)
                             THEN 1 ELSE 0
           /\ pc = "record" =>
                  /\ \A s \in 0..(stem.path.size - 1) :
                         Cardinality(TubeRings(s)) =
                             IF s \in 1..p THEN 0 ELSE 1
                  /\ p + 2 < stem.path.size =>
                         /\ Len(indices) >= from + Len(stitch)
                         /\ SubSeq(indices, from + 1, from + Len(stitch)) = stitch

\* The rings of a stem with a fused collar are done: its path has one
\* sample between ring A and ring B and two samples after ring B.
C23_Witness ==
    /\ pc = "record" /\ stack # <<>> /\ Top.collar = "fused"
    /\ plant.stems[Top.state.segment.stem].path = [size |-> 5, divisions |-> 1]
    /\ Cardinality(TubeRings(1)) = 0
    /\ Cardinality(TubeRings(2)) = 1
    /\ Cardinality(TubeRings(4)) = 1


\* C24 as stated: before the merge every index of a buffer is below the
\* buffer's vertex count, and after the merge it lies in the range the
\* buffer's vertices have in the merged vertex list.
C24_IndicesInRange ==
    /\ pc = "finalize" =>
           \A m \in Buffers : \A k \in 1..Len(mesh.indices[m]) :
               /\ mesh.indices[m][k] >= 0
               /\ mesh.indices[m][k] < Len(mesh.vertices[m])
    /\ pc = "done" =>
           \A m \in Buffers : \A k \in 1..Len(mesh.indices[m]) :
               /\ mesh.indices[m][k] >= CountBefore(mesh.vertices, m)
               /\ mesh.indices[m][k] <
                      CountBefore(mesh.vertices, m) + Len(mesh.vertices[m])


\* The segments recorded in buffer m (entry m), of stems and of leaves.
SegmentsOf(m) ==
    {mesh.stemSegments[m][key] : key \in DOMAIN mesh.stemSegments[m]}
    \cup {mesh.leafSegments[m][key] : key \in DOMAIN mesh.leafSegments[m]}

\* C25 as stated: after generate(), every vertex and every index of every
\* buffer lies in the range of exactly one segment recorded in that buffer.
C25_SegmentsCover ==
    pc = "done" =>
        \A m \in Buffers :
            /\ \A v \in CountBefore(mesh.vertices, m)..
                        (CountBefore(mesh.vertices, m) + Len(mesh.vertices[m]) - 1) :
                   Cardinality({segment \in SegmentsOf(m) :
                       /\ segment.vertexStart <= v
                       /\ v < segment.vertexStart + segment.vertexCount}) = 1
            /\ \A x \in CountBefore(mesh.indices, m)..
                        (CountBefore(mesh.indices, m) + Len(mesh.indices[m]) - 1) :
                   Cardinality({segment \in SegmentsOf(m) :
                       /\ segment.indexStart <= x
                       /\ x < segment.indexStart + segment.indexCount}) = 1


FreshReinsertion ==
    Len(extractions') < Len(extractions) =>
        Cardinality(plant'.pool) =
            Cardinality(plant.pool) + Len(extractions) - Len(extractions')

Restored(before, after) ==
    /\ after.root = before.root
    /\ Reachable(after) = Reachable(before)
    /\ \A s \in Reachable(before) :
          /\ after.parent[s] = before.parent[s]
          /\ after.child[s] = before.child[s]
          /\ after.nextSibling[s] = before.nextSibling[s]
          /\ after.prevSibling[s] = before.prevSibling[s]

\* C27 as stated: extractStems(s, list) followed directly by
\* reinsertStems(list) gives back the tree it started from, sibling order
\* included.
C27_ExtractReinsertRestores ==
    original.stage = "reinserted" => Restored(original.plant, plant)


\* The proper ancestors of a stem: its parent, grandparent, and so on.
Ancestors(pl, stem) ==
    LET Up[s \in Pointers, n \in 0..MaxStems] ==
            IF s = nullptr \/ n = 0 \/ pl.parent[s] = nullptr THEN {}
            ELSE {pl.parent[s]} \cup Up[pl.parent[s], n - 1]
    IN Up[stem, MaxStems]

\* C28 as stated: isDescendantOf(s) returns, and returns true exactly when s
\* is a proper ancestor of the receiver.  A pass through the loop body that
\* neither returns nor changes descendant is a call that never returns.
C28_IsDescendantOf ==
    /\ walk.state \in {"true", "false"} =>
          (walk.state = "true" <=> walk.stem \in Ancestors(plant, walk.this))
    /\ (walk.state = "loop" /\ walk.descendant # nullptr
            /\ walk.stem # plant.parent[walk.descendant]) =>
          plant.parent[walk.stem] # walk.descendant

=============================================================================
